---- MODULE Spec2Model ----
(***************************************************************************)
(* ari-backup: the job runner (workflow.BaseWorkflow.run), its hook        *)
(* pipeline, the command executor (run_command, run_command_with_retries)  *)
(* and the LVM snapshot lifecycle hooks (lvm.LVMSourceMixIn).              *)
(*                                                                         *)
(* A job object is constructed (Init), configured (add_volume, add/insert  *)
(* of hooks) and then run() once.  Every call of run_command is one step,  *)
(* so that a failure or an interrupt can hit any command.                  *)
(***************************************************************************)
EXTENDS Integers, Sequences, FiniteSets, TLC

(* ------------------------------ bounds -------------------------------- *)

\* Number of logical volumes a configuration may register with add_volume.
NumVolumes == 2
\* Largest value of the max_retries setting that is explored.
MaxRetriesSetting == 1
\* Number of abnormal events of one run: a command that does not end with
\* exit status 0, a mount path that exists or is a mount point beforehand.
MaxFaults == 1
\* Number of times run() is called on one job object.
MaxRuns == 2
\* Number of hooks a configuration registers on top of the constructor's
\* when it adds, inserts and deletes hooks freely.
MaxUserHooks == 2
\* Largest retention window, in days, that is explored; the clock and the
\* creation times of the destination's entries range over 0..MaxDays.
MaxDays == 2

(* ------------------------------ state --------------------------------- *)

VARIABLES
    dry_run,            \* self.dry_run
    max_retries,        \* self.max_retries
    source_hostname,    \* self.source_hostname
    pre_job_hooks,      \* self._pre_job_hooks: sequence of [fn, kwargs]
    post_job_hooks,     \* self._post_job_hooks
    logical_volumes,    \* self._logical_volumes: sequence of volumes
    lv_snapshots,       \* self._lv_snapshots: sequence of snapshot records
    pc,                 \* position in run()
    hook_i,             \* 1-based position of the for loop over a hook list
    frame,              \* position inside the hook being executed
    error_case,         \* run()'s local error_case
    exc,                \* the exception propagating, "none" if none
    returned,           \* what run() returned: "none", "True", "False"
    host,               \* the source host: snapshots, dirs, mounted paths
    env,                \* what was there before the job: dirs, mount points
    cmd_log,            \* every call of CommandRunner.run, in order
    hook_log,           \* every invocation of a hook or of the main action
    terminate_calls,    \* number of calls of CommandRunner.terminate
    sleeps,             \* number of calls of time.sleep(retry_interval)
    raised_log,         \* every exception raised inside run(), in order
    faults,             \* abnormal outcomes used so far (bounded by MaxFaults)
    run_log,            \* every call of run_command: its attempt number,
                        \* what the runner did and how run_command ended
    run_number,         \* number of calls of run() on this job object
    snapshot_expiration_days,   \* the retention window of the configuration
    datasets,           \* the entries of the dataset on the ZFS host
    now                 \* what _get_current_datetime() returns

vars == <<dry_run, max_retries, source_hostname, pre_job_hooks, post_job_hooks,
          logical_volumes, lv_snapshots, pc, hook_i, frame, error_case, exc,
          returned, host, env, cmd_log, hook_log, terminate_calls, sleeps,
          raised_log, faults, run_log, run_number, snapshot_expiration_days,
          datasets, now>>

config_vars == <<dry_run, max_retries, source_hostname>>
hook_vars == <<pre_job_hooks, post_job_hooks, logical_volumes>>
world_vars == <<host, env, cmd_log, terminate_calls, faults, run_log>>
zfs_vars == <<snapshot_expiration_days, datasets, now>>

(* ----------------------------- helpers -------------------------------- *)

\* Python's str(bool), as the value stored under a kwargs key.
PyBool(b) == IF b THEN "True" ELSE "False"

\* kwargs = dict(): no key is present.
EmptyKwargs == [error_case |-> "absent", days |-> "absent"]

Hook(fn, kwargs) == [fn |-> fn, kwargs |-> kwargs]

\* A callable registered in place of a kwargs dict: each call returns a
\* new dict with the given content.
Lazy(kwargs) == [returns |-> kwargs]

\* callable(kwargs)
Callable(kwargs) == "returns" \in DOMAIN kwargs

\* A callable registered in place of a kwargs dict that reads the job's
\* configuration each time it is called:
\* "lambda: {'days': job.snapshot_expiration_days}".  seen: the value the
\* attribute had when the hook was registered.
LateBound(seen) == [returns |-> "days", seen |-> seen]

IsLateBound(kwargs) == "seen" \in DOMAIN kwargs

\* Resolved with the callable called once, when the hook is registered.
ResolvedAtRegistration(kwargs) ==
    IF ~Callable(kwargs) THEN kwargs
    ELSE IF IsLateBound(kwargs)
         THEN [EmptyKwargs EXCEPT !.days = kwargs.seen]
         ELSE kwargs.returns

\* "if callable(kwargs): kwargs = kwargs()", evaluated by the for loop of
\* _process_pre_job_hooks / _process_post_job_hooks when it reaches the
\* task.
Resolved(kwargs) ==
    IF ~Callable(kwargs) THEN kwargs
    ELSE IF IsLateBound(kwargs)
         THEN [EmptyKwargs EXCEPT !.days = snapshot_expiration_days]
         ELSE kwargs.returns

\* What a configuration may pass as kwargs of a post-job hook: a dict or a
\* callable, with or without an error_case key of its own.
RegisteredKwargs ==
    LET dicts == {[EmptyKwargs EXCEPT !.error_case = v] :
                      v \in {"absent", "True", "False"}}
    IN dicts \cup {Lazy(d) : d \in dicts}

NoFrame ==
    [fn |-> "none", i |-> 0, stage |-> "none", try_number |-> 0,
     snapshots |-> <<>>, expired_snapshots |-> <<>>]

\* The frame a hook function starts in: its for loop at the first element.
EntryFrame(fn) ==
    [fn |-> fn, i |-> 1, try_number |-> 1,
     snapshots |-> <<>>, expired_snapshots |-> <<>>,
     stage |-> CASE fn = "create_snapshots" -> "lvcreate"
                 [] fn = "mount_snapshots"  -> "mkdir"
                 [] fn = "umount_snapshots" -> "umount"
                 [] fn = "delete_snapshots" -> "lvremove"
                 [] fn = "create_zfs_snapshot" -> "snapshot"
                 [] fn = "destroy_expired_zfs_snapshots" -> "list"
                 [] OTHER                   -> "call"]

\* list.insert(index, x) for 0 <= index <= len(list).
ListInsert(s, index, x) ==
    SubSeq(s, 1, index) \o <<x>> \o SubSeq(s, index + 1, Len(s))

\* The position of the i-th element visited when the copy is not reversed.
ForwardIndex(i) == i

\* local_lv_snapshots after copy.copy() and reverse(): the position in
\* self._lv_snapshots of the i-th element visited.
ReversedIndex(i) == Len(lv_snapshots) - i + 1

UserHooks(hooks) == {k \in 1..Len(hooks) : hooks[k].fn = "user_hook"}

(* ------------------------- command executor --------------------------- *)

\* What CommandRunner.run can do with a command: return an exit status
\* (zero, positive, or negative when the subprocess died of a signal),
\* raise CommandNotFound (Popen's IOError), or be interrupted by the user
\* while blocked in communicate().  effect: whether the command did its
\* work on the host; an interrupted command may or may not have.
RunnerOutcomes ==
    {[raised |-> "none", exitcode |-> 0, effect |-> TRUE],
     [raised |-> "none", exitcode |-> 1, effect |-> FALSE],
     [raised |-> "none", exitcode |-> -1, effect |-> FALSE],
     [raised |-> "CommandNotFound", exitcode |-> 0, effect |-> FALSE],
     [raised |-> "KeyboardInterrupt", exitcode |-> 0, effect |-> TRUE],
     [raised |-> "KeyboardInterrupt", exitcode |-> 0, effect |-> FALSE]}

NormalOutcome == [raised |-> "none", exitcode |-> 0, effect |-> TRUE]

\* The outcomes a call may have: anything while faults remain, else success.
Outcomes == IF faults < MaxFaults THEN RunnerOutcomes ELSE {NormalOutcome}

\* run_command's "if exitcode > 0: raise NonZeroExitCode".
ExitCodeIsError(exitcode) == exitcode > 0

\* RunCommand without "if not self.dry_run": the runner is always called.
RunCommandWhateverDryRun(o) ==
    IF o.raised # "none" THEN o.raised
    ELSE IF ExitCodeIsError(o.exitcode) THEN "NonZeroExitCode"
    ELSE "return"

\* What run_command does for a runner outcome: "return" or the exception
\* it raises.  In dry_run the runner is not called and exitcode stays 0.
RunCommand(o) ==
    IF dry_run THEN "return"
    ELSE IF o.raised # "none" THEN o.raised
    ELSE IF ExitCodeIsError(o.exitcode) THEN "NonZeroExitCode"
    ELSE "return"

\* "except Exception" catches these; KeyboardInterrupt is a BaseException.
IsException(e) ==
    e \in {"CommandNotFound", "NonZeroExitCode", "Exception", "ValueError",
           "TypeError"}

\* The effect of a command on the source host.
HostAfter(cmd, v) ==
    CASE cmd = "lvcreate" -> [host EXCEPT !.snapshots = @ \cup {v}]
      [] cmd = "lvremove" -> [host EXCEPT !.snapshots = @ \ {v}]
      [] cmd = "mkdir"    -> [host EXCEPT !.dirs = @ \cup {v}]
      [] cmd = "rmdir"    -> [host EXCEPT !.dirs = @ \ {v}]
      [] cmd = "mount"    -> [host EXCEPT !.mounted = @ \cup {v}]
      [] cmd = "umount"   -> [host EXCEPT !.mounted = @ \ {v}]
      [] OTHER            -> host

\* The entry of run_log for one call of run_command: in dry_run the runner
\* is not called, stdout and stderr stay empty and exitcode stays 0.
Ran(cmd, v, o) ==
    [cmd |-> cmd, vol |-> v, try_number |-> frame.try_number,
     fn |-> frame.fn, hook |-> hook_i,
     raised |-> IF dry_run THEN "none" ELSE o.raised,
     exitcode |-> IF dry_run THEN 0 ELSE o.exitcode,
     result |-> RunCommand(o)]

\* One call of run_command(command, host) with runner outcome o: the
\* runner is called unless dry_run, and terminate() follows an interrupt.
Executed(cmd, v, o) ==
    /\ cmd_log' = IF dry_run THEN cmd_log
                  ELSE Append(cmd_log, [cmd |-> cmd, vol |-> v])
    /\ host' = IF ~dry_run /\ o.effect THEN HostAfter(cmd, v) ELSE host
    /\ terminate_calls' =
           IF ~dry_run /\ o.raised = "KeyboardInterrupt"
           THEN terminate_calls + 1 ELSE terminate_calls
    /\ faults' = IF ~dry_run /\ o # NormalOutcome THEN faults + 1 ELSE faults
    /\ run_log' = Append(run_log, Ran(cmd, v, o))

(* ------------------------------ Init ---------------------------------- *)

\* Init with the two add_post_hook calls of LVMSourceMixIn.__init__
\* exchanged.
InitDeleteBeforeUmount ==
    /\ dry_run \in BOOLEAN
    /\ max_retries \in 0..MaxRetriesSetting
    /\ source_hostname \in {"localhost", "remotehost"}
    /\ pre_job_hooks = <<Hook("create_snapshots", EmptyKwargs),
                         Hook("mount_snapshots", EmptyKwargs)>>
    /\ post_job_hooks = <<Hook("delete_snapshots", EmptyKwargs),
                          Hook("umount_snapshots", EmptyKwargs)>>
    /\ logical_volumes = <<>>
    /\ lv_snapshots = <<>>
    /\ pc = "config"
    /\ hook_i = 0
    /\ frame = NoFrame
    /\ error_case = FALSE
    /\ exc = "none"
    /\ returned = "none"
    /\ host = [snapshots |-> {}, dirs |-> {}, mounted |-> {}]
    /\ env = [dirs |-> {}, mount_points |-> {}, local_mount_points |-> {}]
    /\ cmd_log = <<>>
    /\ hook_log = <<>>
    /\ terminate_calls = 0
    /\ sleeps = 0
    /\ raised_log = <<>>
    /\ faults = 0
    /\ run_log = <<>>
    /\ run_number = 0
    /\ snapshot_expiration_days = 0
    /\ datasets = {}
    /\ now = 0

\* The job object after LVMSourceMixIn.__init__ and BaseWorkflow.__init__.
Init ==
    /\ dry_run \in BOOLEAN
    /\ max_retries \in 0..MaxRetriesSetting
    /\ source_hostname \in {"localhost", "remotehost"}
    /\ pre_job_hooks = <<Hook("create_snapshots", EmptyKwargs),
                         Hook("mount_snapshots", EmptyKwargs)>>
    /\ post_job_hooks = <<Hook("umount_snapshots", EmptyKwargs),
                          Hook("delete_snapshots", EmptyKwargs)>>
    /\ logical_volumes = <<>>
    /\ lv_snapshots = <<>>
    /\ pc = "config"
    /\ hook_i = 0
    /\ frame = NoFrame
    /\ error_case = FALSE
    /\ exc = "none"
    /\ returned = "none"
    /\ host = [snapshots |-> {}, dirs |-> {}, mounted |-> {}]
    /\ env = [dirs |-> {}, mount_points |-> {}, local_mount_points |-> {}]
    /\ cmd_log = <<>>
    /\ hook_log = <<>>
    /\ terminate_calls = 0
    /\ sleeps = 0
    /\ raised_log = <<>>
    /\ faults = 0
    /\ run_log = <<>>
    /\ run_number = 0
    /\ snapshot_expiration_days = 0
    /\ datasets = {}
    /\ now = 0

(* --------------------------- configuration ---------------------------- *)

\* LVMSourceMixIn.add_volume: the volume is appended.  Volumes are named
\* 1, 2, ... in registration order.
add_volume ==
    /\ pc = "config"
    /\ Len(logical_volumes) < NumVolumes
    /\ logical_volumes' = Append(logical_volumes, Len(logical_volumes) + 1)
    /\ UNCHANGED <<config_vars, zfs_vars, run_number, pre_job_hooks, post_job_hooks, lv_snapshots,
                   pc, hook_i, frame, error_case, exc, returned, world_vars,
                   hook_log, sleeps, raised_log>>

\* The configurations explored register one hook besides the constructor's,
\* at any position of either list, or none.
CanAddHook ==
    /\ pc = "config"
    /\ UserHooks(pre_job_hooks) \cup UserHooks(post_job_hooks) = {}

\* BaseWorkflow.add_pre_hook(function): kwargs defaults to dict().
add_pre_hook ==
    /\ CanAddHook
    /\ pre_job_hooks' = Append(pre_job_hooks, Hook("user_hook", EmptyKwargs))
    /\ UNCHANGED <<config_vars, zfs_vars, run_number, post_job_hooks, logical_volumes, lv_snapshots,
                   pc, hook_i, frame, error_case, exc, returned, world_vars,
                   hook_log, sleeps, raised_log>>

\* BaseWorkflow.insert_pre_hook(index, function).
insert_pre_hook ==
    /\ CanAddHook
    /\ \E index \in 0..(Len(pre_job_hooks) - 1) :
           pre_job_hooks' =
               ListInsert(pre_job_hooks, index, Hook("user_hook", EmptyKwargs))
    /\ UNCHANGED <<config_vars, zfs_vars, run_number, post_job_hooks, logical_volumes, lv_snapshots,
                   pc, hook_i, frame, error_case, exc, returned, world_vars,
                   hook_log, sleeps, raised_log>>

\* BaseWorkflow.add_post_hook(function).
add_post_hook ==
    /\ CanAddHook
    /\ post_job_hooks' = Append(post_job_hooks, Hook("user_hook", EmptyKwargs))
    /\ UNCHANGED <<config_vars, zfs_vars, run_number, pre_job_hooks, logical_volumes, lv_snapshots,
                   pc, hook_i, frame, error_case, exc, returned, world_vars,
                   hook_log, sleeps, raised_log>>

\* BaseWorkflow.add_post_hook(function, kwargs).
add_post_hook_kwargs ==
    /\ CanAddHook
    /\ \E kwargs \in RegisteredKwargs :
           post_job_hooks' = Append(post_job_hooks, Hook("user_hook", kwargs))
    /\ UNCHANGED <<config_vars, zfs_vars, run_number, pre_job_hooks, logical_volumes, lv_snapshots,
                   pc, hook_i, frame, error_case, exc, returned, world_vars,
                   hook_log, sleeps, raised_log>>

\* The hooks of either list registered with the given function.
Registered(fn) ==
    {k \in 1..Len(pre_job_hooks) : pre_job_hooks[k].fn = fn}
        \cup {k \in 1..Len(post_job_hooks) : post_job_hooks[k].fn = fn}

\* add_pre_hook / add_post_hook with a callable in place of kwargs.
add_late_bound_hook ==
    /\ pc = "config"
    /\ Registered("user_hook") = {}
    /\ LET task == Hook("user_hook", LateBound(snapshot_expiration_days))
       IN \/ /\ pre_job_hooks' = Append(pre_job_hooks, task)
             /\ UNCHANGED post_job_hooks
          \/ /\ post_job_hooks' = Append(post_job_hooks, task)
             /\ UNCHANGED pre_job_hooks
    /\ UNCHANGED <<config_vars, zfs_vars, run_number, logical_volumes,
                   lv_snapshots, pc, hook_i, frame, error_case, exc, returned,
                   world_vars, hook_log, sleeps, raised_log>>

\* add_pre_hook / add_post_hook of a hook that changes the job's
\* configuration when it runs.
add_override_hook ==
    /\ pc = "config"
    /\ Registered("override_hook") = {}
    /\ LET task == Hook("override_hook", EmptyKwargs)
       IN \/ /\ pre_job_hooks' = Append(pre_job_hooks, task)
             /\ UNCHANGED post_job_hooks
          \/ /\ post_job_hooks' = Append(post_job_hooks, task)
             /\ UNCHANGED pre_job_hooks
    /\ UNCHANGED <<config_vars, zfs_vars, run_number, logical_volumes,
                   lv_snapshots, pc, hook_i, frame, error_case, exc, returned,
                   world_vars, hook_log, sleeps, raised_log>>

\* The configuration assigns a new retention window to the job object,
\* after its hooks may have been registered and before run().
override_expiration_days ==
    /\ pc = "config"
    /\ \E d \in 0..MaxDays :
        /\ d # snapshot_expiration_days
        /\ snapshot_expiration_days' = d
    /\ UNCHANGED <<config_vars, datasets, now, run_number, hook_vars,
                   lv_snapshots, pc, hook_i, frame, error_case, exc, returned,
                   world_vars, hook_log, sleeps, raised_log>>

\* BaseWorkflow.insert_post_hook(index, function).
insert_post_hook ==
    /\ CanAddHook
    /\ \E index \in 0..(Len(post_job_hooks) - 1) :
           post_job_hooks' =
               ListInsert(post_job_hooks, index, Hook("user_hook", EmptyKwargs))
    /\ UNCHANGED <<config_vars, zfs_vars, run_number, pre_job_hooks, logical_volumes, lv_snapshots,
                   pc, hook_i, frame, error_case, exc, returned, world_vars,
                   hook_log, sleeps, raised_log>>

\* A configuration that registers the job's own teardown methods a second
\* time: insert_post_hook(1, job._umount_snapshots) and
\* add_post_hook(job._delete_snapshots).  Each teardown method then runs
\* twice in a row.
repeat_teardown_hooks ==
    /\ CanAddHook
    /\ Len(post_job_hooks) = 2
    /\ post_job_hooks' =
           Append(ListInsert(post_job_hooks, 1,
                             Hook("umount_snapshots", EmptyKwargs)),
                  Hook("delete_snapshots", EmptyKwargs))
    /\ UNCHANGED <<config_vars, zfs_vars, run_number, pre_job_hooks, logical_volumes, lv_snapshots,
                   pc, hook_i, frame, error_case, exc, returned, world_vars,
                   hook_log, sleeps, raised_log>>

\* list.insert(index, x) that places x after the element at index.
PyInsertAfter(s, index, x) ==
    LET n == Len(s)
        i == IF index < 0 THEN (IF index + n < 0 THEN 0 ELSE index + n)
             ELSE IF index > n THEN n ELSE index
        at == IF i < n THEN i + 1 ELSE n
    IN SubSeq(s, 1, at) \o <<x>> \o SubSeq(s, at + 1, n)

\* Python's list.insert(index, x) for any integer index: a negative index
\* counts from the end, and an index beyond either end is clamped to it.
PyInsert(s, index, x) ==
    LET n == Len(s)
        i == IF index < 0 THEN (IF index + n < 0 THEN 0 ELSE index + n)
             ELSE IF index > n THEN n ELSE index
    IN SubSeq(s, 1, i) \o <<x>> \o SubSeq(s, i + 1, n)

\* Python's list.pop(index) does not raise IndexError.
PyPopDefined(s, index) == -Len(s) <= index /\ index < Len(s)

\* The list after list.pop(index); a negative index counts from the end.
PyPop(s, index) ==
    LET i == IF index < 0 THEN index + Len(s) ELSE index
    IN SubSeq(s, 1, i) \o SubSeq(s, i + 2, Len(s))

\* The kwargs that tell the registrations of a configuration apart:
\* {'days': n} with the smallest n that no registered hook carries.
UsedTags ==
    {pre_job_hooks[k].kwargs.days : k \in UserHooks(pre_job_hooks)}
        \cup {post_job_hooks[k].kwargs.days : k \in UserHooks(post_job_hooks)}

NewTask ==
    Hook("user_hook",
         [EmptyKwargs EXCEPT
            !.days = CHOOSE n \in 1..MaxUserHooks : n \notin UsedTags])

CanRegister ==
    /\ pc = "config"
    /\ Cardinality(UsedTags) < MaxUserHooks

\* What a configuration step leaves alone besides the hook lists.
ConfigFrame ==
    UNCHANGED <<config_vars, zfs_vars, run_number, logical_volumes,
                lv_snapshots, pc, hook_i, frame, error_case, exc, returned,
                world_vars, hook_log, sleeps, raised_log>>

\* add_pre_hook / add_post_hook(function, kwargs): list.append.
AddHook(list, task) ==
    /\ CanRegister
    /\ IF list = "pre"
       THEN /\ pre_job_hooks' = Append(pre_job_hooks, task)
            /\ UNCHANGED post_job_hooks
       ELSE /\ post_job_hooks' = Append(post_job_hooks, task)
            /\ UNCHANGED pre_job_hooks
    /\ ConfigFrame

\* insert_pre_hook / insert_post_hook(index, function, kwargs): list.insert.
InsertHook(list, index, task) ==
    /\ CanRegister
    /\ IF list = "pre"
       THEN /\ pre_job_hooks' = PyInsert(pre_job_hooks, index, task)
            /\ UNCHANGED post_job_hooks
       ELSE /\ post_job_hooks' = PyInsert(post_job_hooks, index, task)
            /\ UNCHANGED pre_job_hooks
    /\ ConfigFrame

\* delete_pre_hook / delete_post_hook(index): list.pop; an IndexError ends
\* the configuration and nothing is changed.
DeleteHook(list, index) ==
    /\ pc = "config"
    /\ IF list = "pre"
       THEN /\ PyPopDefined(pre_job_hooks, index)
            /\ pre_job_hooks' = PyPop(pre_job_hooks, index)
            /\ UNCHANGED post_job_hooks
       ELSE /\ PyPopDefined(post_job_hooks, index)
            /\ post_job_hooks' = PyPop(post_job_hooks, index)
            /\ UNCHANGED pre_job_hooks
    /\ ConfigFrame

\* The indexes a configuration may pass: every position and one beyond
\* each end.
Indexes(s) == -(Len(s) + 1)..(Len(s) + 1)

add_pre_hook_tagged == AddHook("pre", NewTask)

insert_pre_hook_tagged ==
    \E index \in Indexes(pre_job_hooks) : InsertHook("pre", index, NewTask)

delete_pre_hook ==
    \E index \in Indexes(pre_job_hooks) : DeleteHook("pre", index)

add_post_hook_tagged == AddHook("post", NewTask)

insert_post_hook_tagged ==
    \E index \in Indexes(post_job_hooks) : InsertHook("post", index, NewTask)

delete_post_hook ==
    \E index \in Indexes(post_job_hooks) : DeleteHook("post", index)

(* ------------------------------- run() -------------------------------- *)

\* An exception leaves the hook or the main action.  Inside the try block
\* it reaches run()'s except clauses; inside the finally block (the
\* post-job hooks) nothing catches it and it leaves run().
Raise(e, in_command) ==
    /\ exc' = e
    /\ frame' = NoFrame
    /\ pc' = IF pc = "post_hooks" THEN "done" ELSE "except"
    /\ raised_log' = Append(raised_log,
                            [exc |-> e, phase |-> pc, fn |-> frame.fn,
                             index |-> hook_i, in_command |-> in_command])
    /\ UNCHANGED <<hook_i, error_case, returned>>

\* The hook function returns and the for loop moves to the next hook.
HookReturns ==
    /\ frame' = NoFrame
    /\ hook_i' = hook_i + 1
    /\ UNCHANGED <<pc, exc, error_case, returned, raised_log>>

\* The hook function goes on at frame f.
HookContinues(f) ==
    /\ frame' = f
    /\ UNCHANGED <<pc, hook_i, exc, error_case, returned, raised_log>>

\* run(), up to the call of _process_pre_job_hooks().
StartRun ==
    /\ pc = "config"
    /\ pc' = "pre_hooks"
    /\ error_case' = FALSE
    /\ hook_i' = 1
    /\ run_number' = run_number + 1
    /\ UNCHANGED <<config_vars, zfs_vars, hook_vars, lv_snapshots, frame, exc, returned,
                   world_vars, hook_log, sleeps, raised_log>>

\* run() is called again on the same job object, after an earlier call
\* has returned or raised.
RunAgain ==
    /\ pc = "done"
    /\ run_number < MaxRuns
    /\ pc' = "pre_hooks"
    /\ error_case' = FALSE
    /\ hook_i' = 1
    /\ run_number' = run_number + 1
    /\ exc' = "none"
    /\ returned' = "none"
    /\ UNCHANGED <<config_vars, zfs_vars, hook_vars, lv_snapshots, frame, world_vars,
                   hook_log, sleeps, raised_log>>

\* _process_pre_job_hooks: hook(**kwargs) for the next task of the list.
CallPreHook ==
    /\ pc = "pre_hooks"
    /\ frame = NoFrame
    /\ hook_i <= Len(pre_job_hooks)
    /\ frame' = EntryFrame(pre_job_hooks[hook_i].fn)
    /\ hook_log' = Append(hook_log, [phase |-> "pre", index |-> hook_i,
                                     fn |-> pre_job_hooks[hook_i].fn,
                                     kwargs |->
                                       Resolved(pre_job_hooks[hook_i].kwargs)])
    /\ UNCHANGED <<config_vars, zfs_vars, run_number, hook_vars, lv_snapshots, pc, hook_i,
                   error_case, exc, returned, world_vars, sleeps, raised_log>>

\* PreHooksDone without waiting for the end of the list.
PreHooksDoneEarly ==
    /\ pc = "pre_hooks"
    /\ frame = NoFrame
    /\ pc' = "workflow"
    /\ UNCHANGED <<config_vars, zfs_vars, run_number, hook_vars, lv_snapshots, hook_i, frame,
                   error_case, exc, returned, world_vars, hook_log, sleeps,
                   raised_log>>

\* _process_pre_job_hooks returns; run() goes on to the main action.
PreHooksDone ==
    /\ pc = "pre_hooks"
    /\ frame = NoFrame
    /\ hook_i > Len(pre_job_hooks)
    /\ pc' = "workflow"
    /\ UNCHANGED <<config_vars, zfs_vars, run_number, hook_vars, lv_snapshots, hook_i, frame,
                   error_case, exc, returned, world_vars, hook_log, sleeps,
                   raised_log>>

\* _run_custom_workflow: one run_command of the backup tool.  When it
\* returns, the try block is over and the finally block starts.
RunCustomWorkflow ==
    /\ pc = "workflow"
    /\ hook_log' = Append(hook_log, [phase |-> "main", index |-> 0,
                                     fn |-> "run_custom_workflow",
                                     kwargs |-> EmptyKwargs])
    /\ \E o \in Outcomes :
        /\ Executed("backup", 0, o)
        /\ IF RunCommand(o) = "return"
           THEN /\ pc' = "post_hooks"
                /\ hook_i' = 1
                /\ UNCHANGED <<frame, exc, error_case, returned, raised_log>>
           ELSE Raise(RunCommand(o), TRUE)
    /\ UNCHANGED <<config_vars, zfs_vars, run_number, hook_vars, lv_snapshots, env, sleeps>>

\* "except KeyboardInterrupt" without "error_case = True".
ExceptKeyboardInterruptNoFlag ==
    /\ pc = "except"
    /\ exc = "KeyboardInterrupt"
    /\ exc' = "none"
    /\ pc' = "post_hooks"
    /\ hook_i' = 1
    /\ UNCHANGED <<config_vars, zfs_vars, run_number, hook_vars, lv_snapshots, frame, returned,
                   error_case, world_vars, hook_log, sleeps, raised_log>>

\* run()'s "except KeyboardInterrupt".
ExceptKeyboardInterrupt ==
    /\ pc = "except"
    /\ exc = "KeyboardInterrupt"
    /\ error_case' = TRUE
    /\ exc' = "none"
    /\ pc' = "post_hooks"
    /\ hook_i' = 1
    /\ UNCHANGED <<config_vars, zfs_vars, run_number, hook_vars, lv_snapshots, frame, returned,
                   world_vars, hook_log, sleeps, raised_log>>

\* "except Exception" without "error_case = True".
ExceptExceptionNoFlag ==
    /\ pc = "except"
    /\ IsException(exc)
    /\ exc' = "none"
    /\ pc' = "post_hooks"
    /\ hook_i' = 1
    /\ UNCHANGED <<config_vars, zfs_vars, run_number, hook_vars, lv_snapshots, frame, returned,
                   error_case, world_vars, hook_log, sleeps, raised_log>>

\* run()'s "except Exception".
ExceptException ==
    /\ pc = "except"
    /\ IsException(exc)
    /\ error_case' = TRUE
    /\ exc' = "none"
    /\ pc' = "post_hooks"
    /\ hook_i' = 1
    /\ UNCHANGED <<config_vars, zfs_vars, run_number, hook_vars, lv_snapshots, frame, returned,
                   world_vars, hook_log, sleeps, raised_log>>

\* CallPostHook with kwargs.setdefault('error_case', error_case).
CallPostHookSetDefault ==
    /\ pc = "post_hooks"
    /\ frame = NoFrame
    /\ hook_i <= Len(post_job_hooks)
    /\ LET task == post_job_hooks[hook_i]
           kwargs == IF Resolved(task.kwargs).error_case = "absent"
                     THEN [Resolved(task.kwargs) EXCEPT
                             !.error_case = PyBool(error_case)]
                     ELSE Resolved(task.kwargs)
       IN /\ post_job_hooks' =
                 IF Callable(task.kwargs) THEN post_job_hooks
                 ELSE [post_job_hooks EXCEPT ![hook_i].kwargs = kwargs]
          /\ frame' = EntryFrame(task.fn)
          /\ hook_log' = Append(hook_log, [phase |-> "post", index |-> hook_i,
                                           fn |-> task.fn, kwargs |-> kwargs])
    /\ UNCHANGED <<config_vars, zfs_vars, run_number, pre_job_hooks, logical_volumes, lv_snapshots,
                   pc, hook_i, error_case, exc, returned, world_vars, sleeps,
                   raised_log>>

\* _process_post_job_hooks: "if callable(kwargs): kwargs = kwargs()", then
\* kwargs['error_case'] = error_case (a registered dict is itself updated,
\* the dict a callable returned is not kept), then hook(**kwargs).
CallPostHook ==
    /\ pc = "post_hooks"
    /\ frame = NoFrame
    /\ hook_i <= Len(post_job_hooks)
    /\ LET task == post_job_hooks[hook_i]
           kwargs == [Resolved(task.kwargs) EXCEPT
                        !.error_case = PyBool(error_case)]
       IN /\ post_job_hooks' =
                 IF Callable(task.kwargs) THEN post_job_hooks
                 ELSE [post_job_hooks EXCEPT ![hook_i].kwargs = kwargs]
          /\ frame' = EntryFrame(task.fn)
          /\ hook_log' = Append(hook_log, [phase |-> "post", index |-> hook_i,
                                           fn |-> task.fn, kwargs |-> kwargs])
    /\ UNCHANGED <<config_vars, zfs_vars, run_number, pre_job_hooks, logical_volumes, lv_snapshots,
                   pc, hook_i, error_case, exc, returned, world_vars, sleeps,
                   raised_log>>

\* The end of run()'s finally block: return False if error_case else True.
Return ==
    /\ pc = "post_hooks"
    /\ frame = NoFrame
    /\ hook_i > Len(post_job_hooks)
    /\ returned' = IF error_case THEN "False" ELSE "True"
    /\ pc' = "done"
    /\ UNCHANGED <<config_vars, zfs_vars, run_number, hook_vars, lv_snapshots, hook_i, frame,
                   error_case, exc, world_vars, hook_log, sleeps, raised_log>>

\* A hook registered by the configuration: it returns or raises.
user_hook ==
    /\ frame.fn = "user_hook"
    /\ \/ HookReturns
       \/ \E e \in {"Exception", "KeyboardInterrupt"} : Raise(e, FALSE)
    /\ UNCHANGED <<config_vars, zfs_vars, run_number, hook_vars, lv_snapshots, world_vars, hook_log,
                   sleeps>>

\* A hook registered by the configuration that assigns a new retention
\* window to the job object and returns.
override_hook ==
    /\ frame.fn = "override_hook"
    /\ \E d \in 0..MaxDays :
        /\ d # snapshot_expiration_days
        /\ snapshot_expiration_days' = d
    /\ HookReturns
    /\ UNCHANGED <<config_vars, datasets, now, run_number, hook_vars,
                   lv_snapshots, world_vars, hook_log, sleeps>>

(* ------------------- run_command_with_retries ------------------------- *)

\* RetryDecision that compares with >= instead of >.
RetryDecisionOffByOne(r, try_number) ==
    IF r = "return" THEN "return"
    ELSE IF ~IsException(r) THEN "raise"
    ELSE IF try_number >= max_retries THEN "raise"
    ELSE "retry"

\* RetryDecision with "except NonZeroExitCode" instead of "except Exception".
RetryDecisionByType(r, try_number) ==
    IF r = "return" THEN "return"
    ELSE IF r # "NonZeroExitCode" THEN "raise"
    ELSE IF try_number > max_retries THEN "raise"
    ELSE "retry"

\* RetryDecision with a bare "except:" instead of "except Exception".
RetryDecisionCatchesAll(r, try_number) ==
    IF r = "return" THEN "return"
    ELSE IF try_number > max_retries THEN "raise"
    ELSE "retry"

\* What run_command_with_retries does after a run_command that ended with
\* r at attempt try_number: "return"; "raise" (KeyboardInterrupt is not an
\* Exception and passes through; an Exception is re-raised when
\* try_number > max_retries); or "retry" after time.sleep(retry_interval).
RetryDecision(r, try_number) ==
    IF r = "return" THEN "return"
    ELSE IF ~IsException(r) THEN "raise"
    ELSE IF try_number > max_retries THEN "raise"
    ELSE "retry"

\* The stdout that run_command returns at attempt try_number: what the
\* runner captured from that attempt's subprocess, or the empty string
\* that run_command starts with when dry_run skips the runner.
Stdout(try_number) ==
    IF dry_run THEN "" ELSE "stdout of attempt " \o ToString(try_number)

\* A job object of a workflow class that registers no hook of its own.
InitHooks ==
    /\ dry_run \in BOOLEAN
    /\ max_retries = 0
    /\ source_hostname = "localhost"
    /\ pre_job_hooks = <<>>
    /\ post_job_hooks = <<>>
    /\ logical_volumes = <<>>
    /\ lv_snapshots = <<>>
    /\ pc = "config"
    /\ hook_i = 0
    /\ frame = NoFrame
    /\ error_case = FALSE
    /\ exc = "none"
    /\ returned = "none"
    /\ host = [snapshots |-> {}, dirs |-> {}, mounted |-> {}]
    /\ env = [dirs |-> {}, mount_points |-> {}, local_mount_points |-> {}]
    /\ cmd_log = <<>>
    /\ hook_log = <<>>
    /\ terminate_calls = 0
    /\ sleeps = 0
    /\ raised_log = <<>>
    /\ faults = 0
    /\ run_log = <<>>
    /\ run_number = 0
    /\ snapshot_expiration_days = 0
    /\ datasets = {}
    /\ now = 0

\* A job object on which run_command_with_retries(command, host) is
\* called directly, with one of the teardown commands.
InitRetries ==
    /\ dry_run \in BOOLEAN
    /\ max_retries \in 0..MaxRetriesSetting
    /\ source_hostname \in {"localhost", "remotehost"}
    /\ pre_job_hooks = <<Hook("create_snapshots", EmptyKwargs),
                         Hook("mount_snapshots", EmptyKwargs)>>
    /\ post_job_hooks = <<Hook("umount_snapshots", EmptyKwargs),
                          Hook("delete_snapshots", EmptyKwargs)>>
    /\ logical_volumes = <<>>
    /\ lv_snapshots = <<>>
    /\ pc = "call"
    /\ hook_i = 0
    /\ \E cmd \in {"umount", "rmdir", "lvremove"}, v \in 1..NumVolumes :
           frame = [fn |-> "run_command_with_retries", i |-> v,
                    stage |-> cmd, try_number |-> 1,
                    snapshots |-> <<>>, expired_snapshots |-> <<>>]
    /\ error_case = FALSE
    /\ exc = "none"
    /\ returned = "none"
    /\ host = [snapshots |-> {}, dirs |-> {}, mounted |-> {}]
    /\ env = [dirs |-> {}, mount_points |-> {}, local_mount_points |-> {}]
    /\ cmd_log = <<>>
    /\ hook_log = <<>>
    /\ terminate_calls = 0
    /\ sleeps = 0
    /\ raised_log = <<>>
    /\ faults = 0
    /\ run_log = <<>>
    /\ run_number = 0
    /\ snapshot_expiration_days = 0
    /\ datasets = {}
    /\ now = 0

\* run_command_with_retries, one attempt: "return self.run_command(...)";
\* "except Exception": raise e when try_number > self.max_retries, else
\* time.sleep(self.retry_interval) and the next attempt.
run_command_with_retries ==
    /\ pc = "call"
    /\ frame.fn = "run_command_with_retries"
    /\ \E o \in RunnerOutcomes :
        /\ Executed(frame.stage, frame.i, o)
        /\ LET d == RetryDecision(RunCommand(o), frame.try_number) IN
           CASE d = "return" ->
                  /\ returned' = Stdout(frame.try_number)
                  /\ pc' = "done"
                  /\ UNCHANGED <<frame, exc, sleeps>>
             [] d = "retry" ->
                  /\ sleeps' = sleeps + 1
                  /\ frame' = [frame EXCEPT !.try_number = @ + 1]
                  /\ UNCHANGED <<pc, exc, returned>>
             [] OTHER ->
                  /\ exc' = RunCommand(o)
                  /\ pc' = "done"
                  /\ UNCHANGED <<frame, returned, sleeps>>
    /\ UNCHANGED <<config_vars, zfs_vars, run_number, hook_vars, lv_snapshots, hook_i, error_case,
                   env, hook_log, raised_log>>

(* --------------------- run_command's arguments ------------------------ *)

\* FLAGS.ssh_path, FLAGS.ssh_port and FLAGS.remote_user.
ssh_path == "/usr/bin/ssh"
ssh_port == 22
remote_user == "root"

\* A text is the sequence of its blank-separated words.  A str command is
\* a text; a list command is a sequence of arguments, each a text of its
\* own that may hold blanks; None is neither.
Commands ==
    {[type |-> "str", value |-> <<"true">>],
     [type |-> "str", value |-> <<"ls", "-l">>],
     [type |-> "str", value |-> <<"mount", "-o", "ro", "/mnt">>],
     [type |-> "list", value |-> << <<"true">> >>],
     [type |-> "list", value |-> << <<"ls">>, <<"-l">> >>],
     [type |-> "list", value |-> << <<"ls">>, <<"my", "dir">> >>],
     [type |-> "none", value |-> <<>>]}

CommandHosts == {"localhost", "remotehost", "zfshost"}

\* shlex.split(text): one argument for each word.
ShlexSplit(text) == [k \in 1..Len(text) |-> <<text[k]>>]

\* shlex.split('{ssh} -p {port} {user}@{host}'.format(...))
SshArgs(to_host) ==
    ShlexSplit(<<ssh_path, "-p", ToString(ssh_port),
                 remote_user \o "@" \o to_host>>)

\* The args that run_command has built when it reaches the runner.
RunnerArgs(command, to_host) ==
    IF to_host = "localhost" THEN command
    ELSE [type |-> "list",
          value |-> SshArgs(to_host)
                        \o (IF command.type = "str"
                            THEN ShlexSplit(command.value)
                            ELSE command.value)]

\* RunnerShell without the "shell = False" of the remote branch.
RunnerShellOfTheCommand(command, to_host) == command.type = "str"

\* The shell flag that run_command has set when it reaches the runner.
RunnerShell(command, to_host) ==
    IF to_host # "localhost" THEN FALSE ELSE command.type = "str"

\* A job object on which run_command(command, host) is called directly.
InitRunCommand ==
    /\ dry_run \in BOOLEAN
    /\ max_retries = 0
    /\ source_hostname = "localhost"
    /\ pre_job_hooks = <<>>
    /\ post_job_hooks = <<>>
    /\ logical_volumes = <<>>
    /\ lv_snapshots = <<>>
    /\ pc = "call"
    /\ hook_i = 0
    /\ \E command \in Commands, to_host \in CommandHosts :
           frame = [fn |-> "run_command", i |-> 0, stage |-> "call",
                    try_number |-> 1, snapshots |-> <<>>,
                    expired_snapshots |-> <<>>,
                    command |-> command, host |-> to_host]
    /\ error_case = FALSE
    /\ exc = "none"
    /\ returned = "none"
    /\ host = [snapshots |-> {}, dirs |-> {}, mounted |-> {}]
    /\ env = [dirs |-> {}, mount_points |-> {}, local_mount_points |-> {}]
    /\ cmd_log = <<>>
    /\ hook_log = <<>>
    /\ terminate_calls = 0
    /\ sleeps = 0
    /\ raised_log = <<>>
    /\ faults = 0
    /\ run_log = <<>>
    /\ run_number = 0
    /\ snapshot_expiration_days = 0
    /\ datasets = {}
    /\ now = 0

\* run_command(command, host): TypeError for a command that is neither str
\* nor list; else args and shell are built and, unless dry_run, handed to
\* the command runner; terminate() follows an interrupt and NonZeroExitCode
\* a positive exit status.
run_command ==
    /\ pc = "call"
    /\ frame.fn = "run_command"
    /\ pc' = "done"
    /\ \/ /\ frame.command.type = "none"
          /\ exc' = "TypeError"
          /\ UNCHANGED <<returned, cmd_log, terminate_calls, faults, run_log>>
       \/ /\ frame.command.type # "none"
          /\ \E o \in Outcomes :
              /\ cmd_log' =
                     IF dry_run THEN cmd_log
                     ELSE Append(cmd_log,
                                 [command |-> frame.command,
                                  host |-> frame.host,
                                  args |-> RunnerArgs(frame.command,
                                                      frame.host),
                                  shell |-> RunnerShell(frame.command,
                                                        frame.host)])
              /\ terminate_calls' =
                     IF ~dry_run /\ o.raised = "KeyboardInterrupt"
                     THEN terminate_calls + 1 ELSE terminate_calls
              /\ faults' = IF ~dry_run /\ o # NormalOutcome
                           THEN faults + 1 ELSE faults
              /\ run_log' = Append(run_log, Ran("run_command", 0, o))
              /\ IF RunCommand(o) = "return"
                 THEN /\ returned' = Stdout(frame.try_number)
                      /\ UNCHANGED exc
                 ELSE /\ exc' = RunCommand(o)
                      /\ UNCHANGED returned
    /\ UNCHANGED <<config_vars, zfs_vars, run_number, hook_vars, lv_snapshots,
                   hook_i, frame, error_case, host, env, hook_log, sleeps,
                   raised_log>>

\* run_command on its own.
NextRunCommand == run_command

SpecRunCommand == InitRunCommand /\ [][NextRunCommand]_vars

(* --------------------- snapshot lifecycle hooks ----------------------- *)

\* NewSnapshot with 'created': False.
NewSnapshotNotCreated(v) ==
    [vol |-> v, created |-> FALSE, mount_point_created |-> FALSE,
     mounted |-> FALSE]

\* The record _create_snapshots appends for volume v.
NewSnapshot(v) ==
    [vol |-> v, created |-> TRUE, mount_point_created |-> FALSE,
     mounted |-> FALSE]

\* _create_snapshots that appends the record before it runs lvcreate.
create_snapshotsAppendsFirst ==
    /\ frame.fn = "create_snapshots"
    /\ \/ /\ frame.i > Len(logical_volumes)
          /\ HookReturns
          /\ UNCHANGED <<lv_snapshots, world_vars>>
       \/ /\ frame.i <= Len(logical_volumes)
          /\ \E o \in Outcomes :
              /\ Executed("lvcreate", logical_volumes[frame.i], o)
              /\ lv_snapshots' = Append(lv_snapshots,
                                        NewSnapshot(logical_volumes[frame.i]))
              /\ IF RunCommand(o) = "return"
                 THEN HookContinues([frame EXCEPT !.i = @ + 1])
                 ELSE Raise(RunCommand(o), TRUE)
          /\ UNCHANGED env
    /\ UNCHANGED <<config_vars, zfs_vars, run_number, hook_vars, hook_log, sleeps>>

\* _create_snapshots: for each volume, lvcreate through run_command, then
\* append the record.
create_snapshots ==
    /\ frame.fn = "create_snapshots"
    /\ \/ /\ frame.i > Len(logical_volumes)
          /\ HookReturns
          /\ UNCHANGED <<lv_snapshots, world_vars>>
       \/ /\ frame.i <= Len(logical_volumes)
          /\ \E o \in Outcomes :
              /\ Executed("lvcreate", logical_volumes[frame.i], o)
              /\ IF RunCommand(o) = "return"
                 THEN /\ lv_snapshots' =
                            Append(lv_snapshots,
                                   NewSnapshot(logical_volumes[frame.i]))
                      /\ HookContinues([frame EXCEPT !.i = @ + 1])
                 ELSE /\ Raise(RunCommand(o), TRUE)
                      /\ UNCHANGED lv_snapshots
          /\ UNCHANGED env
    /\ UNCHANGED <<config_vars, zfs_vars, run_number, hook_vars, hook_log, sleeps>>

\* _mount_snapshots that goes from mkdir straight to mount, without the
\* os.path.ismount check.
mount_snapshots_mkdirSkipsCheck ==
    /\ frame.fn = "mount_snapshots"
    /\ frame.stage = "mkdir"
    /\ \/ /\ frame.i > Len(lv_snapshots)
          /\ HookReturns
          /\ UNCHANGED <<lv_snapshots, world_vars>>
       \/ /\ frame.i <= Len(lv_snapshots)
          /\ \E o \in Outcomes, existed \in BOOLEAN :
              LET v == lv_snapshots[frame.i].vol IN
              /\ existed => v \notin host.dirs /\ faults < MaxFaults
              /\ env' = IF existed THEN [env EXCEPT !.dirs = @ \cup {v}]
                        ELSE env
              /\ cmd_log' = IF dry_run THEN cmd_log
                            ELSE Append(cmd_log, [cmd |-> "mkdir", vol |-> v])
              /\ host' = IF existed \/ (~dry_run /\ o.effect)
                         THEN HostAfter("mkdir", v) ELSE host
              /\ terminate_calls' =
                     IF ~dry_run /\ o.raised = "KeyboardInterrupt"
                     THEN terminate_calls + 1 ELSE terminate_calls
              /\ faults' = faults
                           + (IF existed THEN 1 ELSE 0)
                           + (IF ~dry_run /\ o # NormalOutcome THEN 1 ELSE 0)
              /\ run_log' = Append(run_log, Ran("mkdir", v, o))
              /\ IF RunCommand(o) = "return"
                 THEN /\ lv_snapshots' =
                            [lv_snapshots EXCEPT
                               ![frame.i].mount_point_created = TRUE]
                      /\ HookContinues([frame EXCEPT !.stage = "mount"])
                 ELSE /\ Raise(RunCommand(o), TRUE)
                      /\ UNCHANGED lv_snapshots
    /\ UNCHANGED <<config_vars, zfs_vars, run_number, hook_vars, hook_log, sleeps>>

\* _mount_snapshots, "mkdir -p mount_path" of the current record.  Whether
\* the directory was there before the job is found out here.
mount_snapshots_mkdir ==
    /\ frame.fn = "mount_snapshots"
    /\ frame.stage = "mkdir"
    /\ \/ /\ frame.i > Len(lv_snapshots)
          /\ HookReturns
          /\ UNCHANGED <<lv_snapshots, world_vars>>
       \/ /\ frame.i <= Len(lv_snapshots)
          /\ \E o \in Outcomes, existed \in BOOLEAN :
              LET v == lv_snapshots[frame.i].vol IN
              /\ existed => v \notin host.dirs /\ faults < MaxFaults
              /\ env' = IF existed THEN [env EXCEPT !.dirs = @ \cup {v}]
                        ELSE env
              /\ cmd_log' = IF dry_run THEN cmd_log
                            ELSE Append(cmd_log, [cmd |-> "mkdir", vol |-> v])
              /\ host' = IF existed \/ (~dry_run /\ o.effect)
                         THEN HostAfter("mkdir", v) ELSE host
              /\ terminate_calls' =
                     IF ~dry_run /\ o.raised = "KeyboardInterrupt"
                     THEN terminate_calls + 1 ELSE terminate_calls
              /\ faults' = faults
                           + (IF existed THEN 1 ELSE 0)
                           + (IF ~dry_run /\ o # NormalOutcome THEN 1 ELSE 0)
              /\ run_log' = Append(run_log, Ran("mkdir", v, o))
              /\ IF RunCommand(o) = "return"
                 THEN /\ lv_snapshots' =
                            [lv_snapshots EXCEPT
                               ![frame.i].mount_point_created = TRUE]
                      /\ HookContinues([frame EXCEPT !.stage = "ismount"])
                 ELSE /\ Raise(RunCommand(o), TRUE)
                      /\ UNCHANGED lv_snapshots
    /\ UNCHANGED <<config_vars, zfs_vars, run_number, hook_vars, hook_log, sleeps>>

\* os.path.ismount(mount_path): evaluated by the Python process, that is on
\* the local machine, which is the source host only for "localhost".
IsMount(v, on_source, on_local) ==
    IF source_hostname = "localhost"
    THEN on_source \/ v \in host.mounted
    ELSE on_local

\* A mount point at mount_path on the machine that runs the job, when that
\* machine is not the source host.  It is an abnormal event of its own; a
\* mount point on the source host goes with the directory that was found
\* there beforehand.
LocalOnly(on_local) == source_hostname # "localhost" /\ on_local

\* _mount_snapshots, the check that mount_path is not a mount point yet.
\* Whether another file system is mounted there is found out here.
mount_snapshots_ismount ==
    /\ frame.fn = "mount_snapshots"
    /\ frame.stage = "ismount"
    /\ \E on_source \in BOOLEAN, on_local \in BOOLEAN :
        LET v == lv_snapshots[frame.i].vol IN
        /\ on_source => v \in env.dirs
        /\ (source_hostname = "localhost") => (on_local = on_source)
        /\ LocalOnly(on_local) => faults < MaxFaults
        /\ faults' = IF LocalOnly(on_local) THEN faults + 1 ELSE faults
        /\ env' = [env EXCEPT
                     !.mount_points = IF on_source THEN @ \cup {v} ELSE @,
                     !.local_mount_points = IF on_local THEN @ \cup {v} ELSE @]
        /\ IF IsMount(v, on_source, on_local)
           THEN Raise("Exception", FALSE)
           ELSE HookContinues([frame EXCEPT !.stage = "mount"])
    /\ UNCHANGED <<config_vars, zfs_vars, run_number, hook_vars, lv_snapshots, host, cmd_log,
                   terminate_calls, run_log, hook_log, sleeps>>

\* _mount_snapshots that sets the mounted flag before it runs mount.
mount_snapshots_mountFlagsFirst ==
    /\ frame.fn = "mount_snapshots"
    /\ frame.stage = "mount"
    /\ \E o \in Outcomes :
        /\ Executed("mount", lv_snapshots[frame.i].vol, o)
        /\ lv_snapshots' = [lv_snapshots EXCEPT ![frame.i].mounted = TRUE]
        /\ IF RunCommand(o) = "return"
           THEN HookContinues([frame EXCEPT !.i = @ + 1, !.stage = "mkdir"])
           ELSE Raise(RunCommand(o), TRUE)
    /\ UNCHANGED <<config_vars, zfs_vars, run_number, hook_vars, env, hook_log, sleeps>>

\* _mount_snapshots, "mount [-o options] device mount_path".
mount_snapshots_mount ==
    /\ frame.fn = "mount_snapshots"
    /\ frame.stage = "mount"
    /\ \E o \in Outcomes :
        /\ Executed("mount", lv_snapshots[frame.i].vol, o)
        /\ IF RunCommand(o) = "return"
           THEN /\ lv_snapshots' =
                      [lv_snapshots EXCEPT ![frame.i].mounted = TRUE]
                /\ HookContinues([frame EXCEPT !.i = @ + 1,
                                               !.stage = "mkdir"])
           ELSE /\ Raise(RunCommand(o), TRUE)
                /\ UNCHANGED lv_snapshots
    /\ UNCHANGED <<config_vars, zfs_vars, run_number, hook_vars, env, hook_log, sleeps>>

\* TeardownAttempt that forgets to clear the record's flag.
TeardownAttemptKeepsFlag(cmd, k, flag, next) ==
    \E o \in Outcomes :
        /\ Executed(cmd, lv_snapshots[k].vol, o)
        /\ LET d == RetryDecision(RunCommand(o), frame.try_number) IN
           CASE d = "return" ->
                  /\ HookContinues(next)
                  /\ UNCHANGED <<lv_snapshots, sleeps>>
             [] d = "retry" ->
                  /\ sleeps' = sleeps + 1
                  /\ HookContinues([frame EXCEPT !.try_number = @ + 1])
                  /\ UNCHANGED lv_snapshots
             [] OTHER ->
                  /\ Raise(RunCommand(o), TRUE)
                  /\ UNCHANGED <<lv_snapshots, sleeps>>

\* One attempt of run_command_with_retries(cmd) inside a teardown loop:
\* on return the record's flag is cleared and the loop goes on at frame
\* next; a retry sleeps and stays; otherwise the exception leaves the hook.
TeardownAttempt(cmd, k, flag, next) ==
    \E o \in Outcomes :
        /\ Executed(cmd, lv_snapshots[k].vol, o)
        /\ LET d == RetryDecision(RunCommand(o), frame.try_number) IN
           CASE d = "return" ->
                  /\ lv_snapshots' = [lv_snapshots EXCEPT ![k][flag] = FALSE]
                  /\ HookContinues(next)
                  /\ UNCHANGED sleeps
             [] d = "retry" ->
                  /\ sleeps' = sleeps + 1
                  /\ HookContinues([frame EXCEPT !.try_number = @ + 1])
                  /\ UNCHANGED lv_snapshots
             [] OTHER ->
                  /\ Raise(RunCommand(o), TRUE)
                  /\ UNCHANGED <<lv_snapshots, sleeps>>

\* _umount_snapshots that runs rmdir through run_command, without retries.
umount_snapshots_rmdirOnce ==
    /\ frame.fn = "umount_snapshots"
    /\ frame.stage = "rmdir"
    /\ \/ /\ ~lv_snapshots[ReversedIndex(frame.i)].mount_point_created
          /\ HookContinues([frame EXCEPT !.i = @ + 1, !.stage = "umount"])
          /\ UNCHANGED <<lv_snapshots, world_vars>>
       \/ /\ lv_snapshots[ReversedIndex(frame.i)].mount_point_created
          /\ \E o \in Outcomes :
              /\ Executed("rmdir", lv_snapshots[ReversedIndex(frame.i)].vol, o)
              /\ IF RunCommand(o) = "return"
                 THEN /\ lv_snapshots' =
                            [lv_snapshots EXCEPT
                               ![ReversedIndex(frame.i)].mount_point_created =
                                   FALSE]
                      /\ HookContinues([frame EXCEPT !.i = @ + 1,
                                                     !.stage = "umount",
                                                     !.try_number = 1])
                 ELSE /\ Raise(RunCommand(o), TRUE)
                      /\ UNCHANGED lv_snapshots
          /\ UNCHANGED env
    /\ UNCHANGED <<config_vars, zfs_vars, run_number, hook_vars, hook_log,
                   sleeps>>

\* _umount_snapshots that issues umount without testing the mounted flag.
umount_snapshots_umountUnconditional ==
    /\ frame.fn = "umount_snapshots"
    /\ frame.stage = "umount"
    /\ \/ /\ frame.i > Len(lv_snapshots)
          /\ HookReturns
          /\ UNCHANGED <<lv_snapshots, world_vars, sleeps>>
       \/ /\ frame.i <= Len(lv_snapshots)
          /\ TeardownAttempt("umount", ReversedIndex(frame.i), "mounted",
                             [frame EXCEPT !.stage = "rmdir",
                                           !.try_number = 1])
          /\ UNCHANGED env
    /\ UNCHANGED <<config_vars, zfs_vars, run_number, hook_vars, hook_log>>

\* _umount_snapshots, "if snapshot['mounted']: umount" of the current
\* record of the reversed copy.
umount_snapshots_umount ==
    /\ frame.fn = "umount_snapshots"
    /\ frame.stage = "umount"
    /\ \/ /\ frame.i > Len(lv_snapshots)
          /\ HookReturns
          /\ UNCHANGED <<lv_snapshots, world_vars, sleeps>>
       \/ /\ frame.i <= Len(lv_snapshots)
          /\ ~lv_snapshots[ReversedIndex(frame.i)].mounted
          /\ HookContinues([frame EXCEPT !.stage = "rmdir"])
          /\ UNCHANGED <<lv_snapshots, world_vars, sleeps>>
       \/ /\ frame.i <= Len(lv_snapshots)
          /\ lv_snapshots[ReversedIndex(frame.i)].mounted
          /\ TeardownAttempt("umount", ReversedIndex(frame.i), "mounted",
                             [frame EXCEPT !.stage = "rmdir",
                                           !.try_number = 1])
          /\ UNCHANGED env
    /\ UNCHANGED <<config_vars, zfs_vars, run_number, hook_vars, hook_log>>

\* _umount_snapshots, "if snapshot['mount_point_created']: rmdir".
umount_snapshots_rmdir ==
    /\ frame.fn = "umount_snapshots"
    /\ frame.stage = "rmdir"
    /\ \/ /\ ~lv_snapshots[ReversedIndex(frame.i)].mount_point_created
          /\ HookContinues([frame EXCEPT !.i = @ + 1, !.stage = "umount"])
          /\ UNCHANGED <<lv_snapshots, world_vars, sleeps>>
       \/ /\ lv_snapshots[ReversedIndex(frame.i)].mount_point_created
          /\ TeardownAttempt("rmdir", ReversedIndex(frame.i),
                             "mount_point_created",
                             [frame EXCEPT !.i = @ + 1, !.stage = "umount",
                                           !.try_number = 1])
          /\ UNCHANGED env
    /\ UNCHANGED <<config_vars, zfs_vars, run_number, hook_vars, hook_log>>

\* _delete_snapshots that walks a reversed copy of the list.
delete_snapshotsReversed ==
    /\ frame.fn = "delete_snapshots"
    /\ \/ /\ frame.i > Len(lv_snapshots)
          /\ HookReturns
          /\ UNCHANGED <<lv_snapshots, world_vars, sleeps>>
       \/ /\ frame.i <= Len(lv_snapshots)
          /\ ~lv_snapshots[ReversedIndex(frame.i)].created
          /\ HookContinues([frame EXCEPT !.i = @ + 1])
          /\ UNCHANGED <<lv_snapshots, world_vars, sleeps>>
       \/ /\ frame.i <= Len(lv_snapshots)
          /\ lv_snapshots[ReversedIndex(frame.i)].created
          /\ TeardownAttempt("lvremove", ReversedIndex(frame.i), "created",
                             [frame EXCEPT !.i = @ + 1, !.try_number = 1])
          /\ UNCHANGED env
    /\ UNCHANGED <<config_vars, zfs_vars, run_number, hook_vars, hook_log>>

\* _delete_snapshots that issues lvremove without testing the created flag.
delete_snapshotsUnconditional ==
    /\ frame.fn = "delete_snapshots"
    /\ \/ /\ frame.i > Len(lv_snapshots)
          /\ HookReturns
          /\ UNCHANGED <<lv_snapshots, world_vars, sleeps>>
       \/ /\ frame.i <= Len(lv_snapshots)
          /\ TeardownAttempt("lvremove", frame.i, "created",
                             [frame EXCEPT !.i = @ + 1, !.try_number = 1])
          /\ UNCHANGED env
    /\ UNCHANGED <<config_vars, zfs_vars, run_number, hook_vars, hook_log>>

\* _delete_snapshots: "if snapshot['created']: lvremove -f" for each record.
delete_snapshots ==
    /\ frame.fn = "delete_snapshots"
    /\ \/ /\ frame.i > Len(lv_snapshots)
          /\ HookReturns
          /\ UNCHANGED <<lv_snapshots, world_vars, sleeps>>
       \/ /\ frame.i <= Len(lv_snapshots)
          /\ ~lv_snapshots[frame.i].created
          /\ HookContinues([frame EXCEPT !.i = @ + 1])
          /\ UNCHANGED <<lv_snapshots, world_vars, sleeps>>
       \/ /\ frame.i <= Len(lv_snapshots)
          /\ lv_snapshots[frame.i].created
          /\ TeardownAttempt("lvremove", frame.i, "created",
                             [frame EXCEPT !.i = @ + 1, !.try_number = 1])
          /\ UNCHANGED env
    /\ UNCHANGED <<config_vars, zfs_vars, run_number, hook_vars, hook_log>>

(* ------------------------ ZFS retention hooks ------------------------- *)

\* self.dataset_name and self.zfs_snapshot_prefix.
dataset_name == "pool/dataset"
zfs_snapshot_prefix == "ari-backup-"

\* Names are sequences of pieces of text: the dataset name, "@" and the
\* pieces of the snapshot name.  Times are counted in days.

\* strftime(self.zfs_snapshot_timestamp_format) of a time.
Strftime(t) == "stamp-" \o ToString(t)

\* '{dataset_name}@{snapshot_name}'
SnapshotPath(snapshot_name) == <<dataset_name, "@">> \o snapshot_name

\* The snapshot that _create_zfs_snapshot takes at time t.
NewZfsSnapshot(t) ==
    [name |-> SnapshotPath(<<zfs_snapshot_prefix, Strftime(t)>>),
     type |-> "snapshot", creation |-> t]

\* The position of the first "@" of a name, 0 if there is none.
AtSign(name) ==
    IF \E k \in 1..Len(name) : name[k] = "@"
    THEN CHOOSE k \in 1..Len(name) :
             /\ name[k] = "@"
             /\ \A j \in 1..(k - 1) : name[j] # "@"
    ELSE 0

\* name.split('@')[1] of a name that holds one "@".
SnapshotName(name) == SubSeq(name, AtSign(name) + 1, Len(name))

\* str.startswith
StartsWith(text, prefix) ==
    /\ Len(text) >= Len(prefix)
    /\ SubSeq(text, 1, Len(prefix)) = prefix

\* The lines that "zfs get -rH -o name,value type <dataset>" prints for a
\* set of entries: name and type, oldest entry first.
RECURSIVE TypeListing(_)
TypeListing(entries) ==
    IF entries = {} THEN <<>>
    ELSE LET e == CHOOSE x \in entries :
                      \A y \in entries : x.creation <= y.creation
         IN <<[name |-> e.name, type |-> e.type]>>
                \o TypeListing(entries \ {e})

\* The stdout of a run_command on the ZFS host: empty in dry_run and when
\* the command died before it printed anything.
ZfsStdout(o, text) == IF ~dry_run /\ o.effect THEN text ELSE <<>>

\* The value of the creation property as zfs prints it.
CreationText(t) == <<"created", ToString(t)>>

\* The creation property of the entry with the given name.
CreationOf(name) == (CHOOSE e \in datasets : e.name = name).creation

\* datetime.strptime(stdout.strip(), '%a %b %d %H:%M %Y'): <<t>> for the
\* time t the text stands for; <<>> for any other text, where strptime
\* raises ValueError.
Strptime(text) ==
    IF \E t \in 0..(MaxDays + 1) : CreationText(t) = text
    THEN <<CHOOSE t \in 0..(MaxDays + 1) : CreationText(t) = text>>
    ELSE <<>>

\* The time that the last piece of a snapshot name encodes, parsed with
\* the timestamp format: <<t>>, or <<>> if it encodes none.
StampTime(snapshot) ==
    LET stamp == snapshot[Len(snapshot)] IN
    IF \E t \in 0..(MaxDays + 1) : Strftime(t) = stamp
    THEN <<CHOOSE t \in 0..(MaxDays + 1) : Strftime(t) = stamp>>
    ELSE <<>>

\* _find_snapshots_older_than, first loop: the listed entries of type
\* snapshot whose snapshot name starts with the prefix.
Snapshots(lines) ==
    SelectSeq(lines, LAMBDA line :
        /\ line.type = "snapshot"
        /\ StartsWith(SnapshotName(line.name), <<zfs_snapshot_prefix>>))

\* The age of a snapshot read from the timestamp of its name.
CreationTimeFromName(snapshot, stdout) == StampTime(snapshot)

\* _get_snapshot_creation_time: the creation property that the command
\* printed, parsed.
CreationTime(snapshot, stdout) == Strptime(stdout)

\* IsExpired with < in place of <=.
IsExpiredStrictly(creation_time, days) == creation_time < now - days

\* "expiration = now - timedelta(days=days)" and
\* "if creation_time <= expiration".
IsExpired(creation_time, days) == creation_time <= now - days

\* The keyword arguments of the hook being executed.
Args == hook_log[Len(hook_log)].kwargs

\* _create_zfs_snapshot without "if not error_case".
create_zfs_snapshotUnconditional ==
    /\ frame.fn = "create_zfs_snapshot"
    /\ \E o \in Outcomes :
          /\ Executed("zfs snapshot", NewZfsSnapshot(now).name, o)
          /\ datasets' = IF ~dry_run /\ o.effect
                         THEN datasets \cup {NewZfsSnapshot(now)}
                         ELSE datasets
          /\ IF RunCommand(o) = "return"
             THEN HookReturns
             ELSE Raise(RunCommand(o), TRUE)
    /\ UNCHANGED <<config_vars, snapshot_expiration_days, now, run_number,
                   hook_vars, lv_snapshots, env, hook_log, sleeps>>

\* _create_zfs_snapshot: nothing if error_case, else "zfs snapshot" of the
\* dataset under the prefix and the current time.
create_zfs_snapshot ==
    /\ frame.fn = "create_zfs_snapshot"
    /\ \/ /\ Args.error_case = "True"
          /\ HookReturns
          /\ UNCHANGED <<world_vars, datasets>>
       \/ /\ Args.error_case # "True"
          /\ \E o \in Outcomes :
              /\ Executed("zfs snapshot", NewZfsSnapshot(now).name, o)
              /\ datasets' = IF ~dry_run /\ o.effect
                             THEN datasets \cup {NewZfsSnapshot(now)}
                             ELSE datasets
              /\ IF RunCommand(o) = "return"
                 THEN HookReturns
                 ELSE Raise(RunCommand(o), TRUE)
          /\ UNCHANGED env
    /\ UNCHANGED <<config_vars, snapshot_expiration_days, now, run_number,
                   hook_vars, lv_snapshots, hook_log, sleeps>>

\* _destroy_expired_zfs_snapshots without "if not error_case".
find_snapshots_older_thanUnconditional ==
    /\ frame.fn = "destroy_expired_zfs_snapshots"
    /\ frame.stage = "list"
    /\ \E o \in Outcomes :
          /\ Executed("zfs get type", dataset_name, o)
          /\ IF RunCommand(o) = "return"
             THEN HookContinues(
                      [frame EXCEPT
                         !.stage = "creation",
                         !.snapshots =
                             Snapshots(ZfsStdout(o, TypeListing(datasets)))])
             ELSE Raise(RunCommand(o), TRUE)
    /\ UNCHANGED <<config_vars, zfs_vars, run_number, hook_vars, lv_snapshots,
                   env, hook_log, sleeps>>

\* _destroy_expired_zfs_snapshots: nothing if error_case, else
\* _find_snapshots_older_than(days), whose first command lists the entries
\* of the dataset with their types.
find_snapshots_older_than ==
    /\ frame.fn = "destroy_expired_zfs_snapshots"
    /\ frame.stage = "list"
    /\ \/ /\ Args.error_case = "True"
          /\ HookReturns
          /\ UNCHANGED world_vars
       \/ /\ Args.error_case # "True"
          /\ \E o \in Outcomes :
              /\ Executed("zfs get type", dataset_name, o)
              /\ IF RunCommand(o) = "return"
                 THEN HookContinues(
                          [frame EXCEPT
                             !.stage = "creation",
                             !.snapshots =
                                 Snapshots(ZfsStdout(o, TypeListing(datasets)))])
                 ELSE Raise(RunCommand(o), TRUE)
          /\ UNCHANGED env
    /\ UNCHANGED <<config_vars, zfs_vars, run_number, hook_vars, lv_snapshots,
                   hook_log, sleeps>>

\* _find_snapshots_older_than, second loop: _get_snapshot_creation_time of
\* the next snapshot and the comparison with the expiration time.
get_snapshot_creation_time ==
    /\ frame.fn = "destroy_expired_zfs_snapshots"
    /\ frame.stage = "creation"
    /\ \/ /\ frame.i > Len(frame.snapshots)
          /\ HookContinues([frame EXCEPT !.stage = "destroy", !.i = 1])
          /\ UNCHANGED world_vars
       \/ /\ frame.i <= Len(frame.snapshots)
          /\ \E o \in Outcomes :
              LET snapshot == frame.snapshots[frame.i].name
                  stdout == ZfsStdout(o, CreationText(CreationOf(snapshot)))
                  creation_time == CreationTime(snapshot, stdout)
              IN /\ Executed("zfs get creation", snapshot, o)
                 /\ IF RunCommand(o) # "return"
                    THEN Raise(RunCommand(o), TRUE)
                    ELSE IF creation_time = <<>>
                    THEN Raise("ValueError", FALSE)
                    ELSE HookContinues(
                             [frame EXCEPT
                                !.i = @ + 1,
                                !.expired_snapshots =
                                    IF IsExpired(creation_time[1], Args.days)
                                    THEN Append(@, snapshot) ELSE @])
          /\ UNCHANGED env
    /\ UNCHANGED <<config_vars, zfs_vars, run_number, hook_vars, lv_snapshots,
                   hook_log, sleeps>>

\* _destroy_expired_zfs_snapshots, "zfs destroy" of the next expired
\* snapshot.
destroy_expired_zfs_snapshots ==
    /\ frame.fn = "destroy_expired_zfs_snapshots"
    /\ frame.stage = "destroy"
    /\ \/ /\ frame.i > Len(frame.expired_snapshots)
          /\ HookReturns
          /\ UNCHANGED <<world_vars, datasets>>
       \/ /\ frame.i <= Len(frame.expired_snapshots)
          /\ \E o \in Outcomes :
              LET snapshot == frame.expired_snapshots[frame.i] IN
              /\ Executed("zfs destroy", snapshot, o)
              /\ datasets' = IF ~dry_run /\ o.effect
                             THEN {e \in datasets : e.name # snapshot}
                             ELSE datasets
              /\ IF RunCommand(o) = "return"
                 THEN HookContinues([frame EXCEPT !.i = @ + 1])
                 ELSE Raise(RunCommand(o), TRUE)
          /\ UNCHANGED env
    /\ UNCHANGED <<config_vars, snapshot_expiration_days, now, run_number,
                   hook_vars, lv_snapshots, hook_log, sleeps>>

(* --------------------------- specification ---------------------------- *)

Next ==
    \/ add_volume
    \/ add_pre_hook
    \/ insert_pre_hook
    \/ add_post_hook
    \/ insert_post_hook
    \/ StartRun
    \/ CallPreHook
    \/ PreHooksDone
    \/ RunCustomWorkflow
    \/ ExceptKeyboardInterrupt
    \/ ExceptException
    \/ CallPostHook
    \/ Return
    \/ user_hook
    \/ create_snapshots
    \/ mount_snapshots_mkdir
    \/ mount_snapshots_ismount
    \/ mount_snapshots_mount
    \/ umount_snapshots_umount
    \/ umount_snapshots_rmdir
    \/ delete_snapshots

Spec == Init /\ [][Next]_vars

\* The jobs whose configuration registers no hook of its own but may
\* register the teardown methods twice.
NextTeardownTwice ==
    \/ add_volume
    \/ repeat_teardown_hooks
    \/ StartRun
    \/ CallPreHook
    \/ PreHooksDone
    \/ RunCustomWorkflow
    \/ ExceptKeyboardInterrupt
    \/ ExceptException
    \/ CallPostHook
    \/ Return
    \/ create_snapshots
    \/ mount_snapshots_mkdir
    \/ mount_snapshots_ismount
    \/ mount_snapshots_mount
    \/ umount_snapshots_umount
    \/ umount_snapshots_rmdir
    \/ delete_snapshots

SpecTeardownTwice == Init /\ [][NextTeardownTwice]_vars

\* A job with one post-job hook registered with kwargs, run more than once.
NextHooks ==
    \/ add_post_hook_kwargs
    \/ StartRun
    \/ RunAgain
    \/ PreHooksDone
    \/ RunCustomWorkflow
    \/ ExceptKeyboardInterrupt
    \/ ExceptException
    \/ CallPostHook
    \/ Return
    \/ user_hook

SpecHooks == InitHooks /\ [][NextHooks]_vars

\* A job object of a workflow class that registers no hook of its own,
\* with a retention window for its hooks to read.
InitLazy ==
    /\ dry_run \in BOOLEAN
    /\ max_retries = 0
    /\ source_hostname = "localhost"
    /\ pre_job_hooks = <<>>
    /\ post_job_hooks = <<>>
    /\ logical_volumes = <<>>
    /\ lv_snapshots = <<>>
    /\ pc = "config"
    /\ hook_i = 0
    /\ frame = NoFrame
    /\ error_case = FALSE
    /\ exc = "none"
    /\ returned = "none"
    /\ host = [snapshots |-> {}, dirs |-> {}, mounted |-> {}]
    /\ env = [dirs |-> {}, mount_points |-> {}, local_mount_points |-> {}]
    /\ cmd_log = <<>>
    /\ hook_log = <<>>
    /\ terminate_calls = 0
    /\ sleeps = 0
    /\ raised_log = <<>>
    /\ faults = 0
    /\ run_log = <<>>
    /\ run_number = 0
    /\ snapshot_expiration_days \in 0..MaxDays
    /\ datasets = {}
    /\ now = 0

\* A job with a hook whose kwargs are a callable, and a hook that changes
\* what the callable reads, on either list and in either order.
NextLazy ==
    \/ add_late_bound_hook
    \/ add_override_hook
    \/ override_expiration_days
    \/ StartRun
    \/ CallPreHook
    \/ PreHooksDone
    \/ RunCustomWorkflow
    \/ ExceptKeyboardInterrupt
    \/ ExceptException
    \/ CallPostHook
    \/ Return
    \/ user_hook
    \/ override_hook

SpecLazy == InitLazy /\ [][NextLazy]_vars

\* The entries a destination dataset may hold before the job: the file
\* system itself and snapshots of it, with or without the prefix, each
\* with a creation time of its own.
FileSystem == [name |-> <<dataset_name>>, type |-> "filesystem", creation |-> 0]

SnapshotNames ==
    {<<zfs_snapshot_prefix, Strftime(0)>>,
     <<zfs_snapshot_prefix, Strftime(MaxDays)>>,
     <<"manual-", zfs_snapshot_prefix, Strftime(0)>>}

Datasets ==
    {{FileSystem} \cup {[name |-> SnapshotPath(n), type |-> "snapshot",
                         creation |-> created[n]] : n \in present} :
         present \in SUBSET SnapshotNames,
         created \in [SnapshotNames -> 0..(MaxDays + 1)]}

\* ZfsPostHooks with the two add_post_hook calls exchanged.
ZfsPostHooksDestroyFirst ==
    <<Hook("destroy_expired_zfs_snapshots",
           [EmptyKwargs EXCEPT !.days = snapshot_expiration_days]),
      Hook("create_zfs_snapshot", EmptyKwargs)>>

\* ZFSLVMBackup.__init__: add_post_hook(self._create_zfs_snapshot), then
\* add_post_hook(self._destroy_expired_zfs_snapshots,
\* {'days': snapshot_expiration_days}).
ZfsPostHooks ==
    <<Hook("create_zfs_snapshot", EmptyKwargs),
      Hook("destroy_expired_zfs_snapshots",
           [EmptyKwargs EXCEPT !.days = snapshot_expiration_days])>>

\* The job object after ZFSLVMBackup.__init__: the LVM hooks, then
\* _create_zfs_snapshot and _destroy_expired_zfs_snapshots with
\* {'days': snapshot_expiration_days} as post-job hooks.  No volume is
\* registered and run() is called once, at time MaxDays + 1.
InitRetention ==
    /\ dry_run \in BOOLEAN
    /\ max_retries = 0
    /\ source_hostname = "remotehost"
    /\ snapshot_expiration_days \in 0..MaxDays
    /\ now = MaxDays + 1
    /\ datasets \in Datasets
    /\ pre_job_hooks = <<Hook("create_snapshots", EmptyKwargs),
                         Hook("mount_snapshots", EmptyKwargs)>>
    /\ post_job_hooks = <<Hook("umount_snapshots", EmptyKwargs),
                          Hook("delete_snapshots", EmptyKwargs)>>
                             \o ZfsPostHooks
    /\ logical_volumes = <<>>
    /\ lv_snapshots = <<>>
    /\ pc = "config"
    /\ hook_i = 0
    /\ frame = NoFrame
    /\ error_case = FALSE
    /\ exc = "none"
    /\ returned = "none"
    /\ host = [snapshots |-> {}, dirs |-> {}, mounted |-> {}]
    /\ env = [dirs |-> {}, mount_points |-> {}, local_mount_points |-> {},
              datasets |-> datasets]
    /\ cmd_log = <<>>
    /\ hook_log = <<>>
    /\ terminate_calls = 0
    /\ sleeps = 0
    /\ raised_log = <<>>
    /\ faults = 0
    /\ run_log = <<>>
    /\ run_number = 0

\* run() of a ZFSLVMBackup job without volumes.
NextRetention ==
    \/ StartRun
    \/ CallPreHook
    \/ PreHooksDone
    \/ RunCustomWorkflow
    \/ ExceptKeyboardInterrupt
    \/ ExceptException
    \/ CallPostHook
    \/ Return
    \/ create_snapshots
    \/ mount_snapshots_mkdir
    \/ umount_snapshots_umount
    \/ delete_snapshots
    \/ create_zfs_snapshot
    \/ find_snapshots_older_than
    \/ get_snapshot_creation_time
    \/ destroy_expired_zfs_snapshots

SpecRetention == InitRetention /\ [][NextRetention]_vars

\* A ZFSLVMBackup job whose configuration registers volumes; the dataset
\* holds one snapshot of an earlier run, old enough to be expired.
InitZFS ==
    /\ dry_run \in BOOLEAN
    /\ max_retries \in 0..MaxRetriesSetting
    /\ source_hostname \in {"localhost", "remotehost"}
    /\ snapshot_expiration_days = MaxDays
    /\ now = MaxDays + 1
    /\ datasets = {FileSystem, NewZfsSnapshot(0)}
    /\ pre_job_hooks = <<Hook("create_snapshots", EmptyKwargs),
                         Hook("mount_snapshots", EmptyKwargs)>>
    /\ post_job_hooks = <<Hook("umount_snapshots", EmptyKwargs),
                          Hook("delete_snapshots", EmptyKwargs)>>
                             \o ZfsPostHooks
    /\ logical_volumes = <<>>
    /\ lv_snapshots = <<>>
    /\ pc = "config"
    /\ hook_i = 0
    /\ frame = NoFrame
    /\ error_case = FALSE
    /\ exc = "none"
    /\ returned = "none"
    /\ host = [snapshots |-> {}, dirs |-> {}, mounted |-> {}]
    /\ env = [dirs |-> {}, mount_points |-> {}, local_mount_points |-> {},
              datasets |-> datasets]
    /\ cmd_log = <<>>
    /\ hook_log = <<>>
    /\ terminate_calls = 0
    /\ sleeps = 0
    /\ raised_log = <<>>
    /\ faults = 0
    /\ run_log = <<>>
    /\ run_number = 0

\* Configuration and run() of a ZFSLVMBackup job.
NextZFS ==
    \/ add_volume
    \/ StartRun
    \/ CallPreHook
    \/ PreHooksDone
    \/ RunCustomWorkflow
    \/ ExceptKeyboardInterrupt
    \/ ExceptException
    \/ CallPostHook
    \/ Return
    \/ create_snapshots
    \/ mount_snapshots_mkdir
    \/ mount_snapshots_ismount
    \/ mount_snapshots_mount
    \/ umount_snapshots_umount
    \/ umount_snapshots_rmdir
    \/ delete_snapshots
    \/ create_zfs_snapshot
    \/ find_snapshots_older_than
    \/ get_snapshot_creation_time
    \/ destroy_expired_zfs_snapshots

SpecZFS == InitZFS /\ [][NextZFS]_vars

\* The job object of an LVM workflow before its configuration.
InitConfigure ==
    /\ dry_run = FALSE
    /\ max_retries = 0
    /\ source_hostname = "localhost"
    /\ pre_job_hooks = <<Hook("create_snapshots", EmptyKwargs),
                         Hook("mount_snapshots", EmptyKwargs)>>
    /\ post_job_hooks = <<Hook("umount_snapshots", EmptyKwargs),
                          Hook("delete_snapshots", EmptyKwargs)>>
    /\ logical_volumes = <<>>
    /\ lv_snapshots = <<>>
    /\ pc = "config"
    /\ hook_i = 0
    /\ frame = NoFrame
    /\ error_case = FALSE
    /\ exc = "none"
    /\ returned = "none"
    /\ host = [snapshots |-> {}, dirs |-> {}, mounted |-> {}]
    /\ env = [dirs |-> {}, mount_points |-> {}, local_mount_points |-> {}]
    /\ cmd_log = <<>>
    /\ hook_log = <<>>
    /\ terminate_calls = 0
    /\ sleeps = 0
    /\ raised_log = <<>>
    /\ faults = 0
    /\ run_log = <<>>
    /\ run_number = 0
    /\ snapshot_expiration_days = 0
    /\ datasets = {}
    /\ now = 0

\* A configuration that adds, inserts and deletes hooks on both lists.
NextConfigure ==
    \/ add_pre_hook_tagged
    \/ insert_pre_hook_tagged
    \/ delete_pre_hook
    \/ add_post_hook_tagged
    \/ insert_post_hook_tagged
    \/ delete_post_hook

SpecConfigure == InitConfigure /\ [][NextConfigure]_vars

\* An LVM job on whose object run() is called up to MaxRuns times; the
\* configuration registers no hook of its own.
NextRerun ==
    \/ add_volume
    \/ StartRun
    \/ RunAgain
    \/ CallPreHook
    \/ PreHooksDone
    \/ RunCustomWorkflow
    \/ ExceptKeyboardInterrupt
    \/ ExceptException
    \/ CallPostHook
    \/ Return
    \/ create_snapshots
    \/ mount_snapshots_mkdir
    \/ mount_snapshots_ismount
    \/ mount_snapshots_mount
    \/ umount_snapshots_umount
    \/ umount_snapshots_rmdir
    \/ delete_snapshots

SpecRerun == Init /\ [][NextRerun]_vars

\* An LVM job with the constructor's hooks only, in their default order:
\* the configuration adds volumes and run() is called once.
NextLVM ==
    \/ add_volume
    \/ StartRun
    \/ CallPreHook
    \/ PreHooksDone
    \/ RunCustomWorkflow
    \/ ExceptKeyboardInterrupt
    \/ ExceptException
    \/ CallPostHook
    \/ Return
    \/ create_snapshots
    \/ mount_snapshots_mkdir
    \/ mount_snapshots_ismount
    \/ mount_snapshots_mount
    \/ umount_snapshots_umount
    \/ umount_snapshots_rmdir
    \/ delete_snapshots

SpecLVM == Init /\ [][NextLVM]_vars

\* run_command_with_retries on its own.
NextRetries == run_command_with_retries

SpecRetries == InitRetries /\ [][NextRetries]_vars

(* ------------------------------ claims -------------------------------- *)

Done == pc = "done"

\* The positions of the hooks of a list that were invoked in a phase, and
\* the invocations of a phase in order.
InvokedIn(phase) ==
    {hook_log[j].index : j \in {n \in 1..Len(hook_log) : hook_log[n].phase = phase}}
Invocations(phase) ==
    SelectSeq(hook_log, LAMBDA e : e.phase = phase)

\* An exception was raised inside run()'s try block: by a before-hook or by
\* the main action.
RaisedIn(phases) ==
    \E j \in 1..Len(raised_log) : raised_log[j].phase \in phases
TryFailed == RaisedIn({"pre_hooks", "workflow"})

\* Every registered after-hook was invoked, each with error_case = b.
EveryAfterHookInvokedWith(b) ==
    /\ InvokedIn("post") = 1..Len(post_job_hooks)
    /\ \A j \in 1..Len(hook_log) :
           hook_log[j].phase = "post" => hook_log[j].kwargs.error_case = b

\* C1: if the main action raises, run() still invokes every registered
\* after-hook, and every after-hook receives error_case = True.
C1_MainFailureRunsEveryAfterHook ==
    (Done /\ RaisedIn({"workflow"})) => EveryAfterHookInvokedWith("True")

\* C2: wherever the job failed or was interrupted, when run() ends no
\* snapshot created by the job exists on the source host, none is mounted
\* and no mount-point directory created by the job remains.
C2_NothingLeftBehind ==
    Done => /\ host.snapshots = {}
            /\ host.mounted = {}
            /\ host.dirs \ env.dirs = {}

AllFlagsCleared ==
    \A k \in 1..Len(lv_snapshots) :
        /\ ~lv_snapshots[k].created
        /\ ~lv_snapshots[k].mount_point_created
        /\ ~lv_snapshots[k].mounted

\* C3: after run() has returned, whether the job succeeded or failed at any
\* point of setup or of the main action, every snapshot record has
\* created, mount_point_created and mounted all False.
C3_FlagsClearedAfterRun ==
    (Done /\ returned # "none") => AllFlagsCleared

\* C3's case: a run of two volumes that failed during setup or the main
\* action, tore down and returned.
C3_Witness ==
    /\ Done
    /\ returned = "False"
    /\ Len(lv_snapshots) = 2
    /\ \E c \in {"umount", "rmdir", "lvremove"} :
           \E j \in 1..Len(cmd_log) : cmd_log[j].cmd = c
    /\ AllFlagsCleared

\* C4: when an after-hook raises, every later after-hook of the list is
\* still invoked, with the same error_case.
C4_AfterHookFailureDoesNotStopLaterAfterHooks ==
    (Done /\ RaisedIn({"post_hooks"})) =>
        EveryAfterHookInvokedWith(PyBool(error_case))

PhaseRank(phase) ==
    CASE phase = "pre" -> 1 [] phase = "main" -> 2 [] OTHER -> 3

\* C5: in every run the before-hooks execute in list order, then the main
\* action, then the after-hooks in list order: no before-hook is invoked
\* once the main action has started, no after-hook is invoked while the
\* before-hooks or the main action are still under way, the main action
\* starts only after all before-hooks, and a run that returns has invoked
\* all after-hooks.
C5_HookOrder ==
    /\ \A a, b \in 1..Len(hook_log) :
         a < b =>
           \/ PhaseRank(hook_log[a].phase) < PhaseRank(hook_log[b].phase)
           \/ /\ hook_log[a].phase = hook_log[b].phase
              /\ hook_log[a].index < hook_log[b].index
    /\ pc \in {"config", "pre_hooks", "workflow", "except"} =>
           InvokedIn("post") = {}
    /\ pc \in {"config", "pre_hooks"} => InvokedIn("main") = {}
    /\ InvokedIn("main") # {} => InvokedIn("pre") = 1..Len(pre_job_hooks)
    /\ \A phase \in {"pre", "post"} :
           InvokedIn(phase) = 1..Cardinality(InvokedIn(phase))
    /\ returned # "none" => InvokedIn("post") = 1..Len(post_job_hooks)

\* C5's case: a run with three before-hooks and two after-hooks returned
\* after its main action.
C5_Witness ==
    /\ Done
    /\ returned = "True"
    /\ Len(pre_job_hooks) = 3
    /\ Len(Invocations("pre")) = 3
    /\ Len(Invocations("main")) = 1
    /\ Len(Invocations("post")) = 2

C8_RunAlwaysReturns ==
    Done => (returned \in {"True", "False"} /\ exc = "none")

\* C9: when an interrupt arrives while run_command is blocked on a
\* subprocess during a before-hook or the main action, terminate() is
\* called, the interrupt reaches run(), which sets error_case = True, and
\* all after-hooks are then run.
C9_InterruptRunsAllAfterHooks ==
    (Done /\ \E j \in 1..Len(raised_log) :
                 /\ raised_log[j].phase \in {"pre_hooks", "workflow"}
                 /\ raised_log[j].exc = "KeyboardInterrupt"
                 /\ raised_log[j].in_command) =>
        /\ terminate_calls >= 1
        /\ error_case
        /\ EveryAfterHookInvokedWith("True")

Attempted(cmd, v) ==
    \E j \in 1..Len(cmd_log) : cmd_log[j] = [cmd |-> cmd, vol |-> v]

\* C10: within _umount_snapshots and within _delete_snapshots, a teardown
\* command of one record that fails on its last retry does not abort the
\* phase: the teardown of every other record whose flag is set is still
\* attempted.
C10_TeardownFailureDoesNotAbortPhase ==
    \A j \in 1..Len(raised_log) :
        (Done /\ raised_log[j].phase = "post_hooks"
              /\ raised_log[j].in_command
              /\ IsException(raised_log[j].exc)) =>
            \A k \in 1..Len(lv_snapshots) :
                lv_snapshots[k].vol # cmd_log[Len(cmd_log)].vol =>
                    /\ (raised_log[j].fn = "umount_snapshots"
                          /\ lv_snapshots[k].mounted)
                           => Attempted("umount", lv_snapshots[k].vol)
                    /\ (raised_log[j].fn = "umount_snapshots"
                          /\ lv_snapshots[k].mount_point_created)
                           => Attempted("rmdir", lv_snapshots[k].vol)
                    /\ (raised_log[j].fn = "delete_snapshots"
                          /\ lv_snapshots[k].created)
                           => Attempted("lvremove", lv_snapshots[k].vol)

\* The calls of run_command for a command, in order.
Calls(cmd) == SelectSeq(run_log, LAMBDA e : e.cmd = cmd)

\* The number of elements of a sequence that satisfy Test.
Count(seq, Test(_)) == Len(SelectSeq(seq, Test))

\* Some call of run_command for one of the commands has been made.
Called(cmds) == \E j \in 1..Len(run_log) : run_log[j].cmd \in cmds

\* The hook function fn was invoked and is not running any more.
HookLeft(fn) ==
    /\ \E j \in 1..Len(hook_log) : hook_log[j].fn = fn
    /\ frame.fn # fn

\* C11: starting from an empty record list, _create_snapshots issues the
\* lvcreate commands in volume registration order and stops at the first
\* one whose run_command raises: a failed create is the last create
\* issued; the record list holds one record per create that returned, for
\* volumes 1..k-1 in order when the create of volume k failed and for all
\* n volumes when none failed; and until _mount_snapshots or
\* _delete_snapshots touch them, these records have created = True,
\* mount_point_created = False and mounted = False.
C11_CreateStopsAtFirstFailure ==
    LET creates == Calls("lvcreate")
        succeeded == Count(creates, LAMBDA e : e.result = "return")
        untouched == ~Called({"mkdir", "lvremove"})
    IN /\ Len(creates) <= Len(logical_volumes)
       /\ \A j \in 1..Len(creates) :
              /\ creates[j].vol = logical_volumes[j]
              /\ creates[j].result # "return" =>
                     (j = Len(creates) /\ Len(lv_snapshots) = j - 1)
       /\ Len(lv_snapshots) = succeeded
       /\ \A j \in 1..Len(lv_snapshots) :
              /\ lv_snapshots[j].vol = logical_volumes[j]
              /\ untouched =>
                     lv_snapshots[j] = NewSnapshot(logical_volumes[j])
       /\ (HookLeft("create_snapshots")
             /\ \A j \in 1..Len(creates) : creates[j].result = "return") =>
              Len(lv_snapshots) = Len(logical_volumes)

\* C11's case: two volumes are registered, the create of the first one
\* exits with a non-zero status and the run ends without a second create.
C11_Witness ==
    /\ Done
    /\ Len(logical_volumes) = 2
    /\ Len(Calls("lvcreate")) = 1
    /\ Calls("lvcreate")[1].result = "NonZeroExitCode"
    /\ lv_snapshots = <<>>

\* C12: if the mount target of a record is already a mount point on the
\* source host, _mount_snapshots raises before any mount command is issued
\* for that record, the record's mounted flag is never set, and run()
\* returns False.
C12_AlreadyMountedTargetFailsTheRun ==
    \A k \in 1..Len(lv_snapshots) :
        lv_snapshots[k].vol \in env.mount_points =>
            /\ \A j \in 1..Len(run_log) :
                   ~(run_log[j].cmd = "mount"
                       /\ run_log[j].vol = lv_snapshots[k].vol)
            /\ \E j \in 1..Len(raised_log) :
                   /\ raised_log[j].fn = "mount_snapshots"
                   /\ raised_log[j].exc = "Exception"
            /\ Done => returned = "False"

\* The calls of run_command made by a hook function, in order.
CallsOf(fn) == SelectSeq(run_log, LAMBDA e : e.fn = fn)

\* The position in self._lv_snapshots of the record of volume v.
RecordOf(v) == CHOOSE k \in 1..Len(lv_snapshots) : lv_snapshots[k].vol = v

\* This step is a call of run_command made by the hook function fn.
CallBy(fn) ==
    /\ Len(run_log') = Len(run_log) + 1
    /\ run_log'[Len(run_log')].fn = fn

\* C13: _umount_snapshots visits the records in reverse registration
\* order; for each record it issues umount only if mounted is True and
\* then rmdir only if mount_point_created is True; a flag is cleared by the
\* step in which its command returned and by no other step of the hook (a
\* command whose run_command raises leaves its flag True); no other record
\* is changed.
C13_UmountOrderAndFlags ==
    /\ [](LET t == CallsOf("umount_snapshots") IN
            \A a, b \in 1..Len(t) :
                a < b => \/ t[a].vol > t[b].vol
                         \/ /\ t[a].vol = t[b].vol
                            /\ t[a].cmd = "rmdir" => t[b].cmd = "rmdir")
    /\ [][/\ CallBy("umount_snapshots") =>
               LET e == run_log'[Len(run_log')]
                   k == RecordOf(e.vol)
               IN /\ e.cmd \in {"umount", "rmdir"}
                  /\ e.cmd = "umount" =>
                       /\ lv_snapshots[k].mounted
                       /\ lv_snapshots' =
                            [lv_snapshots EXCEPT
                               ![k].mounted = (e.result # "return")]
                  /\ e.cmd = "rmdir" =>
                       /\ ~lv_snapshots[k].mounted
                       /\ lv_snapshots[k].mount_point_created
                       /\ lv_snapshots' =
                            [lv_snapshots EXCEPT
                               ![k].mount_point_created =
                                   (e.result # "return")]
          /\ (frame.fn = "umount_snapshots" /\ run_log' = run_log) =>
               lv_snapshots' = lv_snapshots
         ]_vars

\* C13's case: two mounted snapshots were unmounted, the second one first,
\* each umount followed by the rmdir of its mount point.
C13_Witness ==
    /\ Done
    /\ Len(CallsOf("umount_snapshots")) = 4
    /\ \A j \in 1..4 :
           CallsOf("umount_snapshots")[j].vol = (IF j <= 2 THEN 2 ELSE 1)
    /\ AllFlagsCleared

\* The positions, in the order in which _create_snapshots visited the
\* volumes, of the volumes that the commands of the hook function fn were
\* issued for, in the order of these commands.
VisitOrder(fn) ==
    LET creates == Calls("lvcreate")
        t == CallsOf(fn)
    IN [a \in 1..Len(t) |->
           CHOOSE j \in 1..Len(creates) : creates[j].vol = t[a].vol]

\* The commands of the hook function fn go through the records in the
\* reverse of the order of creation.
VisitsInReverse(fn) ==
    LET o == VisitOrder(fn)
    IN \A a \in 1..(Len(o) - 1) : o[a] >= o[a + 1]

\* The commands of the hook function fn go through the records in the
\* order of creation.
VisitsInOrder(fn) ==
    LET o == VisitOrder(fn)
    IN \A a \in 1..(Len(o) - 1) : o[a] <= o[a + 1]

\* C14, as claimed: both _umount_snapshots and _delete_snapshots visit the
\* records in the exact reverse of the order in which _create_snapshots
\* visited the volumes.
C14_BothTeardownsVisitInReverse ==
    VisitsInReverse("umount_snapshots") /\ VisitsInReverse("delete_snapshots")

\* C14, amended: _umount_snapshots visits the records in the exact reverse
\* of the order in which _create_snapshots visited the volumes, and
\* _delete_snapshots visits them in that same order, not reversed.
C14_UmountReversesDeleteDoesNot ==
    VisitsInReverse("umount_snapshots") /\ VisitsInOrder("delete_snapshots")

\* C14's case: two snapshots were created, mounted, unmounted and deleted.
C14_Witness ==
    /\ Done
    /\ {e.vol : e \in {Calls("umount")[j] : j \in 1..Len(Calls("umount"))}}
           = {1, 2}
    /\ {e.vol : e \in {Calls("lvremove")[j] : j \in 1..Len(Calls("lvremove"))}}
           = {1, 2}

\* C15: _delete_snapshots visits the records in registration order, also
\* after _umount_snapshots has run, which leaves the order and the length
\* of the record list as they were; it issues lvremove (through
\* run_command_with_retries) for a record exactly when its created flag is
\* True: never for a record whose flag is False, and for every record
\* whose flag is True unless a delete raised before; created is cleared by
\* the step in which the lvremove returned and by no other step.
C15_DeleteOrderAndFlags ==
    /\ [](/\ VisitsInOrder("delete_snapshots")
          /\ \A j \in 1..Len(lv_snapshots) :
                 lv_snapshots[j].vol = logical_volumes[j]
          /\ (HookLeft("delete_snapshots")
                /\ \A j \in 1..Len(raised_log) :
                       raised_log[j].fn # "delete_snapshots") =>
                 \A k \in 1..Len(lv_snapshots) : ~lv_snapshots[k].created)
    /\ [][/\ CallBy("delete_snapshots") =>
               LET e == run_log'[Len(run_log')]
                   k == RecordOf(e.vol)
               IN /\ e.cmd = "lvremove"
                  /\ lv_snapshots[k].created
                  /\ e.try_number <= max_retries + 1
                  /\ lv_snapshots' =
                       [lv_snapshots EXCEPT
                          ![k].created = (e.result # "return")]
          /\ (frame.fn = "delete_snapshots" /\ run_log' = run_log) =>
               lv_snapshots' = lv_snapshots
          /\ frame.fn = "umount_snapshots" =>
               /\ Len(lv_snapshots') = Len(lv_snapshots)
               /\ \A k \in 1..Len(lv_snapshots) :
                      lv_snapshots'[k].vol = lv_snapshots[k].vol
         ]_vars

\* C15's case: _delete_snapshots ran twice after _umount_snapshots; the
\* first call deleted both snapshots, the second one retried, and the
\* second call found every created flag False and issued nothing.
C15_Witness ==
    /\ Done
    /\ Len(post_job_hooks) = 4
    /\ returned # "none"
    /\ Len(CallsOf("umount_snapshots")) >= 4
    /\ Len(CallsOf("delete_snapshots")) = 3
    /\ CallsOf("delete_snapshots")[1].vol = 1
    /\ CallsOf("delete_snapshots")[2].try_number = 1
    /\ CallsOf("delete_snapshots")[3].try_number = 2

\* C16: calling _umount_snapshots twice in a row is safe: when the first
\* call has completed, the second call issues no command and changes no
\* flag (while it runs, every record is as it was appended, but for the
\* two flags the first call cleared).
C16_SecondUmountDoesNothing ==
    (Len(post_job_hooks) = 4 /\ pc \in {"post_hooks", "done"}) =>
        /\ \A j \in 1..Len(run_log) :
               ~(run_log[j].fn = "umount_snapshots" /\ run_log[j].hook = 2)
        /\ (pc = "post_hooks" /\ hook_i = 2) =>
               \A k \in 1..Len(lv_snapshots) :
                   lv_snapshots[k] = NewSnapshot(lv_snapshots[k].vol)

\* C16's case: the first call unmounted two snapshots and removed their
\* mount points, and the second call has gone through both records.
C16_Witness ==
    /\ Len(post_job_hooks) = 4
    /\ pc = "post_hooks"
    /\ hook_i = 2
    /\ frame.fn = "umount_snapshots"
    /\ frame.i > Len(lv_snapshots)
    /\ Len(lv_snapshots) = 2
    /\ Len(CallsOf("umount_snapshots")) = 4

\* An attempt failed: its run_command raised an error (NonZeroExitCode or
\* CommandNotFound).
AttemptFailed(e) == IsException(e.result)

\* C17: with max_retries = N, run_command_with_retries calls run_command
\* min(j, N+1) times, j being the first attempt that succeeds: attempts
\* are numbered 1, 2, ..., there are at most N+1, and every attempt but the
\* last one made has failed.  It sleeps exactly once between consecutive
\* attempts, never before the first or after the last.  It returns the
\* output of the successful attempt, and it raises the error of attempt
\* N+1 exactly when all N+1 attempts failed.  (An attempt that the user
\* interrupts ends the call at once with KeyboardInterrupt.)
C17_RetryCount ==
    LET n == Len(run_log)
        last == run_log[n]
    IN /\ n <= max_retries + 1
       /\ \A a \in 1..n : run_log[a].try_number = a
       /\ \A a \in 1..(n - 1) : AttemptFailed(run_log[a])
       /\ pc = "call" =>
              /\ sleeps = n
              /\ n <= max_retries
              /\ n > 0 => AttemptFailed(last)
       /\ pc = "done" =>
              /\ sleeps = n - 1
              /\ last.result = "return" =>
                     (returned = Stdout(n) /\ exc = "none")
              /\ last.result # "return" =>
                     (exc = last.result /\ returned = "none")
              /\ AttemptFailed(last) <=> n = max_retries + 1 /\ exc # "none"
                                         /\ IsException(exc)

\* C17's case: max_retries = 1, the first attempt failed, the second one
\* succeeded after one sleep and its output was returned.
C17_Witness ==
    /\ pc = "done"
    /\ max_retries = 1
    /\ Len(run_log) = 2
    /\ run_log[1].result = "NonZeroExitCode"
    /\ sleeps = 1
    /\ returned = "stdout of attempt 2"

\* C18: every non-zero exit status of a subprocess, positive or negative,
\* is a failure: run_command raises NonZeroExitCode for it, and only exit
\* status 0 makes run_command return (stdout, stderr).
C18_NonZeroExitStatusRaises ==
    \A j \in 1..Len(run_log) :
        run_log[j].raised = "none" =>
            /\ run_log[j].exitcode # 0 => run_log[j].result = "NonZeroExitCode"
            /\ run_log[j].result = "return" => run_log[j].exitcode = 0

\* C19: retries do not depend on the error type: after an attempt that
\* failed with CommandNotFound, as after one that failed with
\* NonZeroExitCode, run_command_with_retries sleeps once and makes another
\* attempt when the attempt's number is at most max_retries, and raises
\* that error without sleeping when it is attempt max_retries + 1.
C19_RetriesWhateverTheError ==
    \A a \in 1..Len(run_log) :
        run_log[a].result \in {"CommandNotFound", "NonZeroExitCode"} =>
            IF a <= max_retries
            THEN /\ a < Len(run_log) \/ pc = "call"
                 /\ sleeps >= a
                 /\ a < Len(run_log) => run_log[a + 1].try_number = a + 1
            ELSE /\ a = Len(run_log)
                 /\ pc = "done"
                 /\ exc = run_log[a].result
                 /\ sleeps = a - 1

\* C19's case: max_retries = 1, the first attempt raised CommandNotFound,
\* and after one sleep a second attempt was made, which raised it again.
C19_Witness ==
    /\ pc = "done"
    /\ max_retries = 1
    /\ Len(run_log) = 2
    /\ run_log[1].result = "CommandNotFound"
    /\ run_log[2].result = "CommandNotFound"
    /\ sleeps = 1
    /\ exc = "CommandNotFound"

\* C20: the error_case value an after-hook receives equals the current
\* run's error_case whatever the hook registered: an error_case key of the
\* registered dict, of the dict a callable returned, or left in the
\* registered dict by an earlier run is overridden at every invocation.
C20_ErrorCaseOverridesRegisteredKwargs ==
    [][(/\ Len(hook_log') = Len(hook_log) + 1
        /\ hook_log'[Len(hook_log')].phase = "post") =>
           /\ hook_log'[Len(hook_log')].kwargs.error_case = PyBool(error_case)
           /\ error_case' = error_case
           /\ hook_log'[Len(hook_log')].kwargs.days =
                  Resolved(post_job_hooks[hook_i].kwargs).days
      ]_vars

\* C20's case: a hook registered with a dict that says error_case = True
\* received False in a first run that succeeded, True in a second run
\* that failed, the dict then holding the first run's False.
C20_Witness ==
    /\ run_number = 2
    /\ Len(Invocations("post")) = 2
    /\ Invocations("post")[1].kwargs.error_case = "False"
    /\ Invocations("post")[2].kwargs.error_case = "True"
    /\ ~Callable(post_job_hooks[1].kwargs)
    /\ returned = "False"

\* The task the for loop of the current hook list is at.
CurrentTask ==
    IF pc = "pre_hooks" THEN pre_job_hooks[hook_i] ELSE post_job_hooks[hook_i]

\* This step invokes a hook registered with a late-bound callable.
CallsLateBoundHook ==
    /\ pc \in {"pre_hooks", "post_hooks"}
    /\ frame = NoFrame
    /\ Len(hook_log') = Len(hook_log) + 1
    /\ IsLateBound(CurrentTask.kwargs)

\* C21: a hook registered with a callable in place of its kwargs receives
\* what the callable returns at the step that invokes the hook, i.e. the
\* retention window as it is after the configuration's later assignments
\* and after the earlier hooks of the list have run, not as it was when
\* the hook was registered.
C21_CallableEvaluatedWhenHookRuns ==
    [][CallsLateBoundHook =>
           hook_log'[Len(hook_log')].kwargs.days = snapshot_expiration_days]_vars

\* The late-bound hook ran after an override hook of the same list and
\* received a value other than the one seen at registration.
C21_Witness ==
    \E k \in 1..Len(hook_log) :
        LET e == hook_log[k]
            hooks == IF e.phase = "pre" THEN pre_job_hooks ELSE post_job_hooks
        IN /\ e.fn = "user_hook"
           /\ IsLateBound(hooks[e.index].kwargs)
           /\ hooks[e.index].kwargs.seen # e.kwargs.days
           /\ \E j \in 1..(k - 1) :
                  /\ hook_log[j].fn = "override_hook"
                  /\ hook_log[j].phase = e.phase

\* The two post-job hooks of the retention manager.
ZfsHooks == {"create_zfs_snapshot", "destroy_expired_zfs_snapshots"}

\* The invocation (entry of hook_log) of the post-job hook at position i.
PostInvocation(i) ==
    CHOOSE k \in 1..Len(hook_log) :
        hook_log[k].phase = "post" /\ hook_log[k].index = i

\* The calls of run_command made by the given hook functions.
CommandsOf(fns) == SelectSeq(run_log, LAMBDA e : e.fn \in fns)

\* C22: _create_zfs_snapshot and _destroy_expired_zfs_snapshots call
\* run_command only in an invocation that received error_case False; with
\* error_case True no snapshot is created, no listing or creation time is
\* asked for, nothing is destroyed and the dataset stays as it was.
C22_NoRetentionCommandInErrorCase ==
    /\ \A k \in 1..Len(run_log) :
           run_log[k].fn \in ZfsHooks =>
               hook_log[PostInvocation(run_log[k].hook)].kwargs.error_case
                   = "False"
    /\ error_case => datasets = env.datasets

\* Both retention hooks were invoked with error_case True and returned.
C22_Witness ==
    /\ Done
    /\ returned = "False"
    /\ \A fn \in ZfsHooks :
           \E k \in 1..Len(hook_log) :
               /\ hook_log[k].fn = fn
               /\ hook_log[k].kwargs.error_case = "True"
    /\ Len(CommandsOf(ZfsHooks)) = 0
    /\ Cardinality(datasets) > 1

\* The dataset as the listing of _find_snapshots_older_than finds it: what
\* was there before the job and the snapshot that _create_zfs_snapshot has
\* just taken.
DatasetAtListing ==
    env.datasets \cup
        {NewZfsSnapshot(now) : k \in
            {j \in 1..Len(run_log) :
                /\ run_log[j].cmd = "zfs snapshot"
                /\ ~dry_run
                /\ run_log[j].raised = "none"
                /\ run_log[j].exitcode = 0}}

\* The entries the retention window condemns: snapshots, named with the
\* prefix, created at or before now - snapshot_expiration_days.
ExpiredEntries ==
    {e \in DatasetAtListing :
        /\ e.type = "snapshot"
        /\ e.name[1] = dataset_name
        /\ e.name[2] = "@"
        /\ e.name[3] = zfs_snapshot_prefix
        /\ e.creation <= now - snapshot_expiration_days}

\* The names given to "zfs destroy".
DestroyCommands ==
    {run_log[k].vol : k \in {j \in 1..Len(run_log) :
                                run_log[j].cmd = "zfs destroy"}}

\* run() returned without error_case and every command of the retention
\* hooks ran and ended with exit status 0.
RetentionCompleted ==
    /\ returned = "True"
    /\ ~dry_run
    /\ \A k \in 1..Len(run_log) :
           run_log[k].fn \in ZfsHooks =>
               run_log[k].raised = "none" /\ run_log[k].exitcode = 0

\* C23: _destroy_expired_zfs_snapshots gives to "zfs destroy" only entries
\* of the dataset that are snapshots, whose snapshot name starts with the
\* prefix and whose creation property is at or before now - days (never a
\* file system, a snapshot without the prefix or a newer snapshot), and
\* when its commands have all succeeded it has destroyed every such entry
\* and no other entry has left the dataset.
C23_DestroysExactlyTheExpiredPrefixedSnapshots ==
    /\ DestroyCommands \subseteq {e.name : e \in ExpiredEntries}
    /\ DatasetAtListing \ ExpiredEntries \subseteq datasets
    /\ RetentionCompleted =>
           /\ DestroyCommands = {e.name : e \in ExpiredEntries}
           /\ datasets = DatasetAtListing \ ExpiredEntries

\* A completed run that destroyed a snapshot created exactly at the cutoff
\* and kept a newer prefixed snapshot and a snapshot without the prefix.
C23_Witness ==
    /\ RetentionCompleted
    /\ \E e \in ExpiredEntries :
           e.creation = now - snapshot_expiration_days
    /\ \E e \in datasets :
           /\ e.type = "snapshot"
           /\ e.name[3] = zfs_snapshot_prefix
           /\ e.creation > now - snapshot_expiration_days
    /\ \E e \in datasets :
           /\ e.type = "snapshot"
           /\ e.name[3] # zfs_snapshot_prefix
           /\ e.creation <= now - snapshot_expiration_days

\* _find_snapshots_older_than as a function of the dataset's entries: the
\* names it returns when its commands print what the dataset holds.
FindSnapshotsOlderThan(entries, days) ==
    LET created(name) == (CHOOSE e \in entries : e.name = name).creation
        expired(line) ==
            IsExpired(CreationTime(line.name,
                                   CreationText(created(line.name)))[1], days)
        snapshots == Snapshots(TypeListing(entries))
    IN {snapshots[k].name :
           k \in {j \in 1..Len(snapshots) : expired(snapshots[j])}}

\* The texts that may follow the prefix in a snapshot name, and those
\* that do in the names of the dataset.
StampTexts == {Strftime(t) : t \in 0..(MaxDays + 1)}
NameStamps == {Strftime(0), Strftime(MaxDays), Strftime(now)}

\* The ways of rewriting the text that follows the prefix, distinct names
\* staying distinct.
Restampings ==
    {f \in [NameStamps -> StampTexts] :
        \A a, b \in NameStamps : a # b => f[a] # f[b]}

\* _destroy_expired_zfs_snapshots is about to list the dataset.
AtListing ==
    /\ frame.fn = "destroy_expired_zfs_snapshots"
    /\ frame.stage = "list"

\* A name with the text following the prefix rewritten by f; a name without
\* the prefix is left as it is.
RestampedName(name, f) ==
    IF Len(name) = 4 /\ name[3] = zfs_snapshot_prefix
    THEN [name EXCEPT ![4] = f[name[4]]]
    ELSE name

\* The same entries, same types and creation properties, under the
\* rewritten names.
Restamped(entries, f) ==
    {[e EXCEPT !.name = RestampedName(e.name, f)] : e \in entries}

\* C24: the snapshots that are destroyed do not depend on the timestamp in
\* their names: whatever text follows the prefix in the names of the
\* dataset's snapshots, with the same types and creation properties, the
\* corresponding snapshots are found expired; and a completed run destroys
\* exactly the snapshots found this way.
C24_AgeDecisionIgnoresTheNameTimestamp ==
    /\ AtListing =>
           \A f \in Restampings :
               FindSnapshotsOlderThan(Restamped(datasets, f),
                                      snapshot_expiration_days)
                 = {RestampedName(n, f) :
                        n \in FindSnapshotsOlderThan(datasets,
                                                     snapshot_expiration_days)}
    /\ RetentionCompleted =>
           DestroyCommands = FindSnapshotsOlderThan(DatasetAtListing,
                                                    snapshot_expiration_days)

\* A completed run destroyed a snapshot whose name carries the newest
\* timestamp and kept one whose name carries the oldest.
C24_Witness ==
    /\ RetentionCompleted
    /\ SnapshotPath(<<zfs_snapshot_prefix, Strftime(MaxDays)>>)
           \in DestroyCommands
    /\ \E e \in datasets :
           e.name = SnapshotPath(<<zfs_snapshot_prefix, Strftime(0)>>)

\* The functions invoked so far, hooks and main action, in order.
CallOrder == [k \in 1..Len(hook_log) |-> hook_log[k].fn]

\* C25: a run() of a ZFSLVMBackup job that returns True has called
\* _create_snapshots, _mount_snapshots, the main action, _umount_snapshots
\* and _delete_snapshots in this order, and after them
\* _create_zfs_snapshot and then _destroy_expired_zfs_snapshots, each
\* once and nothing else.
C25_DefaultOrderOfAFailureFreeRun ==
    returned = "True" =>
        CallOrder = <<"create_snapshots", "mount_snapshots",
                      "run_custom_workflow", "umount_snapshots",
                      "delete_snapshots", "create_zfs_snapshot",
                      "destroy_expired_zfs_snapshots">>

\* A run over every volume returned True after it mounted, unmounted and
\* deleted snapshots and destroyed an expired destination snapshot.
C25_Witness ==
    /\ returned = "True"
    /\ Len(logical_volumes) = NumVolumes
    /\ \A cmd \in {"lvcreate", "mount", "backup", "umount", "lvremove",
                   "zfs snapshot", "zfs destroy"} :
           \E k \in 1..Len(run_log) : run_log[k].cmd = cmd

\* The main action returned and run() has ended, by return or by raise.
MainActionSucceeded ==
    /\ Done
    /\ \E k \in 1..Len(run_log) :
           run_log[k].cmd = "backup" /\ run_log[k].result = "return"

\* C29: when the main action of a ZFSLVMBackup job has succeeded, run()
\* does not end before _create_zfs_snapshot has called run_command with
\* its "zfs snapshot" command, whatever _umount_snapshots and
\* _delete_snapshots did before it.
C29_HistoricalSnapshotAfterEverySuccessfulBackup ==
    MainActionSucceeded =>
        \E k \in 1..Len(run_log) : run_log[k].cmd = "zfs snapshot"

\* new is old with task at 0-based position index and every other element
\* in its former order.
PlacedAt(old, new, index, task) ==
    /\ Len(new) = Len(old) + 1
    /\ new[index + 1] = task
    /\ \A i \in 1..Len(old) : new[IF i <= index THEN i ELSE i + 1] = old[i]

\* new is old without the element at 0-based position index, every other
\* element in its former order.
RemovedAt(old, new, index) ==
    /\ Len(new) = Len(old) - 1
    /\ \A i \in 1..Len(new) : new[i] = old[IF i <= index THEN i ELSE i + 1]

\* What C26 says of the steps on one list, the other list being other.
HookListOperations(list, old, new, other, other_after) ==
    /\ AddHook(list, NewTask) =>
           PlacedAt(old, new, Len(old), NewTask) /\ other_after = other
    /\ \A index \in 0..Len(old) :
           InsertHook(list, index, NewTask) =>
               PlacedAt(old, new, index, NewTask) /\ other_after = other
    /\ \A index \in 0..(Len(old) - 1) :
           DeleteHook(list, index) =>
               RemovedAt(old, new, index) /\ other_after = other

\* C26: on the pre-job and on the post-job list, add puts the hook at the
\* end, insert(index) puts it at position index of the list (0 is the
\* first element, the one the for loop of run() calls first) and
\* delete(index) removes the hook at position index; the other hooks keep
\* their relative order and the other list is not changed.
C26_AddInsertDeleteOnHookLists ==
    [][/\ HookListOperations("pre", pre_job_hooks, pre_job_hooks',
                             post_job_hooks, post_job_hooks')
       /\ HookListOperations("post", post_job_hooks, post_job_hooks',
                             pre_job_hooks, pre_job_hooks')]_vars

\* Both lists went through insertions and a deletion: a registered hook
\* stands at the head of the pre-job list before the constructor's, and a
\* constructor's hook has been deleted from the post-job list that a
\* registered hook was added to.
C26_Witness ==
    /\ Len(pre_job_hooks) = 3
    /\ pre_job_hooks[1].fn = "user_hook"
    /\ pre_job_hooks[2].fn = "create_snapshots"
    /\ pre_job_hooks[3].fn = "mount_snapshots"
    /\ Len(post_job_hooks) = 2
    /\ post_job_hooks[1].fn = "delete_snapshots"
    /\ post_job_hooks[2].fn = "user_hook"

\* The argument vector of a command: the arguments of a list, the words of
\* a command line.
ArgumentVector(command) ==
    IF command.type = "list" THEN command.value
    ELSE [k \in 1..Len(command.value) |-> <<command.value[k]>>]

\* C27: what run_command hands to the command runner is the command
\* itself, unchanged, when host is "localhost"; for any other host it is
\* the list [ssh_path, "-p", ssh_port, remote_user@host] followed by the
\* command's arguments, with shell False.
C27_RunnerArgumentsLocalAndRemote ==
    \A k \in 1..Len(cmd_log) :
        LET call == cmd_log[k] IN
        IF call.host = "localhost"
        THEN call.args = call.command
        ELSE /\ call.args.type = "list"
             /\ call.args.value =
                    << <<ssh_path>>, <<"-p">>, <<ToString(ssh_port)>>,
                       <<remote_user \o "@" \o call.host>> >>
                        \o ArgumentVector(call.command)
             /\ call.shell = FALSE

\* A command line went to a remote host and the runner returned.
C27_Witness ==
    /\ Done
    /\ returned # "none"
    /\ \E k \in 1..Len(cmd_log) :
           /\ cmd_log[k].host = "zfshost"
           /\ cmd_log[k].command.type = "str"
           /\ Len(cmd_log[k].args.value) = 8

\* The volumes for which run_command was called with the command.
VolumesOf(cmd) == LET c == Calls(cmd) IN {c[k].vol : k \in 1..Len(c)}

\* The volumes for which a call of run_command with the command returned.
Succeeded(cmd) ==
    LET c == Calls(cmd)
    IN {c[k].vol : k \in {j \in 1..Len(c) : c[j].result = "return"}}

\* C28: when run() has returned, so that every teardown command ended by
\* succeeding, then wherever the setup stopped and whatever error_case was,
\* umount was issued for exactly the volumes whose mount returned, rmdir
\* for exactly those whose mkdir returned and lvremove for exactly those
\* whose lvcreate returned; and at no time is a teardown command issued
\* for another volume.
C28_TeardownMatchesWhatSetupDid ==
    /\ VolumesOf("umount") \subseteq Succeeded("mount")
    /\ VolumesOf("rmdir") \subseteq Succeeded("mkdir")
    /\ VolumesOf("lvremove") \subseteq Succeeded("lvcreate")
    /\ returned # "none" =>
           /\ VolumesOf("umount") = Succeeded("mount")
           /\ VolumesOf("rmdir") = Succeeded("mkdir")
           /\ VolumesOf("lvremove") = Succeeded("lvcreate")

\* The mount of the second volume failed; the teardown unmounted the first
\* volume only, removed both mount points and both snapshots, and run()
\* returned False.
C28_Witness ==
    /\ returned = "False"
    /\ VolumesOf("mount") = {1, 2}
    /\ VolumesOf("umount") = {1}
    /\ VolumesOf("rmdir") = {1, 2}
    /\ VolumesOf("lvremove") = {1, 2}

\* The mount paths at which _mount_snapshots found a file system mounted
\* by someone else: os.path.ismount returned True.
FoundMounted ==
    IF source_hostname = "localhost" THEN env.mount_points
    ELSE env.local_mount_points

\* C30: _umount_snapshots never calls run_command with rmdir for a mount
\* path whose directory was there before _mount_snapshots ran, nor for a
\* mount path at which _mount_snapshots found a file system mounted.
C30_NoRmdirOfWhatTheRunDidNotCreate ==
    VolumesOf("rmdir") \cap (env.dirs \cup FoundMounted) = {}

\* The records of self._lv_snapshots that stand for volume v.
RecordsOf(v) == {k \in 1..Len(lv_snapshots) : lv_snapshots[k].vol = v}

\* C31: whatever the number of calls of run() on the job object,
\* self._lv_snapshots holds at most one record per volume added with
\* add_volume, and _mount_snapshots is never about to run mount for a
\* record whose created flag is False.
C31_OneRecordPerVolumeAndOnlyCreatedOnesMounted ==
    /\ \A v \in 1..NumVolumes : Cardinality(RecordsOf(v)) <= 1
    /\ (frame.fn = "mount_snapshots" /\ frame.stage = "mount")
           => lv_snapshots[frame.i].created

\* _mount_snapshots raised "<mount_path> is already a mount point." for
\* the record of volume v: the exception did not come from a command, and
\* the last command of _mount_snapshots was the mkdir of that record.
CheckFailedFor(v) ==
    LET c == CallsOf("mount_snapshots") IN
    /\ \E j \in 1..Len(raised_log) :
           /\ raised_log[j].fn = "mount_snapshots"
           /\ ~raised_log[j].in_command
    /\ c # <<>>
    /\ c[Len(c)].cmd = "mkdir"
    /\ c[Len(c)].vol = v

\* C32: for a remote source host, the already-mounted check of
\* _mount_snapshots looks at that host: no mount command is issued for a
\* mount path that is a mount point there, and the check fails only for
\* such a path, not for one that is a mount point on the local machine alone.
C32_MountPointCheckLooksAtTheSourceHost ==
    source_hostname # "localhost" =>
        \A v \in 1..NumVolumes :
            /\ v \in env.mount_points => v \notin VolumesOf("mount")
            /\ CheckFailedFor(v) => v \in env.mount_points

\* The commands of the setup hooks and those of the teardown hooks.
SetupCommands == {"lvcreate", "mkdir", "mount"}
TeardownCommands == {"umount", "rmdir", "lvremove"}

\* The call of run_command recorded at position j of run_log was followed
\* by a further attempt of the same command: the attempt has been made, or
\* the hook is about to make it.
Retried(j) ==
    LET e == run_log[j] IN
    IF j = Len(run_log)
    THEN /\ frame.fn = e.fn
         /\ frame.stage = e.cmd
         /\ frame.try_number = e.try_number + 1
    ELSE /\ run_log[j + 1].fn = e.fn
         /\ run_log[j + 1].cmd = e.cmd
         /\ run_log[j + 1].vol = e.vol
         /\ run_log[j + 1].try_number = e.try_number + 1

\* The failure of the call recorded at position j of run_log left its hook
\* as an exception: it is the last exception raised, the hook is no longer
\* running and has run no command since.
Surfaced(j) ==
    LET e == run_log[j] IN
    /\ frame.fn # e.fn
    /\ \A k \in (j + 1)..Len(run_log) : run_log[k].fn # e.fn
    /\ \E r \in 1..Len(raised_log) :
           /\ raised_log[r].fn = e.fn
           /\ raised_log[r].exc = e.result
           /\ raised_log[r].in_command

\* C33: lvcreate, mkdir and mount are called through run_command: one
\* attempt per record, whose failure leaves the hook at once.  umount, rmdir
\* and lvremove are called through run_command_with_retries: attempts are
\* numbered up to max_retries + 1, a failed attempt with a number up to
\* max_retries is followed by the next attempt, and the failure of attempt
\* max_retries + 1 leaves the hook.
C33_SetupOnceTeardownWithRetries ==
    \A j \in 1..Len(run_log) :
        LET e == run_log[j] IN
        /\ e.cmd \in SetupCommands =>
               /\ e.try_number = 1
               /\ \A k \in 1..Len(run_log) :
                      (run_log[k].cmd = e.cmd /\ run_log[k].vol = e.vol)
                          => k = j
               /\ e.result # "return" => Surfaced(j)
        /\ e.cmd \in TeardownCommands =>
               /\ e.try_number \in 1..(max_retries + 1)
               /\ IsException(e.result) =>
                      IF e.try_number <= max_retries
                      THEN Retried(j) /\ ~Surfaced(j)
                      ELSE Surfaced(j)

\* C33's case: with max_retries = 1 the first umount failed, the hook
\* stayed in _umount_snapshots and the second attempt returned; lvcreate,
\* mkdir and mount were each attempted once.
C33_Witness ==
    /\ max_retries = 1
    /\ \E j \in 1..Len(run_log) :
           /\ run_log[j].cmd = "umount"
           /\ run_log[j].try_number = 1
           /\ IsException(run_log[j].result)
           /\ Retried(j)
           /\ j < Len(run_log)
           /\ run_log[j + 1].result = "return"
    /\ Len(Calls("lvcreate")) = 1
    /\ Len(Calls("mkdir")) = 1
    /\ Len(Calls("mount")) = 1

\* The step is a call of run_command(cmd) by _mount_snapshots.
MountHookRuns(cmd) ==
    /\ frame.fn = "mount_snapshots"
    /\ Len(run_log') = Len(run_log) + 1
    /\ run_log'[Len(run_log')].cmd = cmd

\* The step takes _mount_snapshots to the given stage of its loop body.
MountHookEnters(stage) ==
    /\ frame'.fn = "mount_snapshots"
    /\ frame'.stage = stage
    /\ frame.stage # stage

\* C34: in run() on a newly configured job object, _mount_snapshots takes
\* the records in list order, one at a time.
\* The mkdir of a record is issued when every record before it is mounted
\* and no later one has been touched; the mount-point check comes right
\* after the mkdir of the same record has returned, the mount right after
\* the check of the same record.  When _mount_snapshots fails at a record,
\* every later record has mount_point_created = False and mounted = False.
C34_MountsOneRecordAtATimeInListOrder ==
    [][/\ MountHookRuns("mkdir") =>
              /\ frame.stage = "mkdir"
              /\ run_log'[Len(run_log')].vol = lv_snapshots[frame.i].vol
              /\ \A k \in 1..(frame.i - 1) :
                     lv_snapshots[k].mounted
                         /\ lv_snapshots[k].mount_point_created
              /\ \A k \in frame.i..Len(lv_snapshots) :
                     ~lv_snapshots[k].mounted
                         /\ ~lv_snapshots[k].mount_point_created
       /\ MountHookEnters("ismount") =>
              /\ MountHookRuns("mkdir")
              /\ run_log'[Len(run_log')].result = "return"
              /\ frame'.i = frame.i
       /\ MountHookEnters("mount") =>
              /\ frame.fn = "mount_snapshots"
              /\ frame.stage = "ismount"
              /\ frame'.i = frame.i
              /\ run_log' = run_log
       /\ MountHookRuns("mount") =>
              /\ frame.stage = "mount"
              /\ run_log'[Len(run_log')].vol = lv_snapshots[frame.i].vol
       /\ (frame.fn = "mount_snapshots" /\ exc' # "none") =>
              \A k \in (frame.i + 1)..Len(lv_snapshots') :
                  ~lv_snapshots'[k].mounted
                      /\ ~lv_snapshots'[k].mount_point_created
      ]_vars

\* C34's case: of two records, the first got its mount point, passed the
\* check and failed to mount; the second record was left as appended.
C34_Witness ==
    /\ Len(lv_snapshots) = 2
    /\ Len(CallsOf("mount_snapshots")) = 2
    /\ CallsOf("mount_snapshots")[1].cmd = "mkdir"
    /\ CallsOf("mount_snapshots")[2].cmd = "mount"
    /\ CallsOf("mount_snapshots")[2].vol = 1
    /\ CallsOf("mount_snapshots")[2].result = "NonZeroExitCode"
    /\ pc = "except"
    /\ lv_snapshots[1].mount_point_created
    /\ lv_snapshots[2] = NewSnapshot(2)

\* C35: with the hooks of the constructor in their default order, every
\* record of self._lv_snapshots has mounted only if mount_point_created,
\* and mount_point_created only if created, in every state of run() on a
\* newly configured job object, whatever command of a setup or teardown
\* hook failed.
C35_FlagsImplyEarlierFlags ==
    \A k \in 1..Len(lv_snapshots) :
        /\ lv_snapshots[k].mounted => lv_snapshots[k].mount_point_created
        /\ lv_snapshots[k].mount_point_created => lv_snapshots[k].created

\* C35's case: after a backup over two mounted snapshots, the second one
\* was unmounted and its rmdir failed: it keeps mount_point_created and
\* created, the first one keeps all three flags, and run() has ended.
C35_Witness ==
    /\ Done
    /\ Len(lv_snapshots) = 2
    /\ lv_snapshots[1].mounted
    /\ ~lv_snapshots[2].mounted
    /\ lv_snapshots[2].mount_point_created
    /\ \E r \in 1..Len(raised_log) : raised_log[r].fn = "umount_snapshots"

\* C36: with the hooks of the constructor in their default order, lvremove
\* is never issued while a record is flagged mounted: _delete_snapshots
\* runs only when _umount_snapshots has returned, with every mounted flag
\* cleared, and runs no command at all when _umount_snapshots raised.
C36_NoDeleteOfAMountedSnapshot ==
    /\ frame.fn = "delete_snapshots" =>
           \A k \in 1..Len(lv_snapshots) : ~lv_snapshots[k].mounted
    /\ Calls("lvremove") # <<>> =>
           \A k \in 1..Len(lv_snapshots) : ~lv_snapshots[k].mounted
    /\ (\E r \in 1..Len(raised_log) : raised_log[r].fn = "umount_snapshots")
           => /\ Calls("lvremove") = <<>>
              /\ frame.fn # "delete_snapshots"

\* C36's case: umount failed at each of its max_retries + 1 attempts, the
\* snapshot is still flagged mounted, run() has ended and no lvremove was
\* issued.
C36_Witness ==
    /\ Done
    /\ Len(lv_snapshots) = 1
    /\ lv_snapshots[1].mounted
    /\ Calls("umount") # <<>>
    /\ Calls("umount")[Len(Calls("umount"))].result = "NonZeroExitCode"
    /\ Calls("lvremove") = <<>>

\* A call of run_command with command cmd returned before position j of
\* run_log.
ReturnedBefore(cmd, j) ==
    \E k \in 1..(j - 1) : run_log[k].cmd = cmd /\ run_log[k].result = "return"

\* C37: in run() of a ZFSLVMBackup job, every "zfs destroy" of an expired
\* snapshot comes after the main action has returned and after the
\* "zfs snapshot" command of _create_zfs_snapshot has returned.
C37_DestroyOnlyAfterBackupAndNewSnapshot ==
    \A j \in 1..Len(run_log) :
        run_log[j].cmd = "zfs destroy" =>
            /\ ReturnedBefore("backup", j)
            /\ ReturnedBefore("zfs snapshot", j)

\* C37's case: the backup and the new snapshot succeeded, and the expired
\* snapshot of the earlier run is gone from the dataset.
C37_Witness ==
    /\ returned = "True"
    /\ \E j \in 1..Len(run_log) :
           run_log[j].cmd = "zfs destroy" /\ run_log[j].result = "return"
    /\ NewZfsSnapshot(0) \notin datasets
    /\ NewZfsSnapshot(now) \in datasets

\* C38: when an attempt of run_command_with_retries ends with
\* KeyboardInterrupt, the call ends with that exception at once: it is the
\* last attempt, no time.sleep follows it (the sleeps are those between
\* the attempts before it), whatever max_retries is.
C38_InterruptIsNotRetried ==
    \A j \in 1..Len(run_log) :
        run_log[j].result = "KeyboardInterrupt" =>
            /\ j = Len(run_log)
            /\ pc = "done"
            /\ exc = "KeyboardInterrupt"
            /\ sleeps = j - 1

\* C38's case: with max_retries = 1, the first attempt was interrupted and
\* the call ended although a retry was left.
C38_Witness ==
    /\ max_retries = 1
    /\ Len(run_log) = 1
    /\ run_log[1].result = "KeyboardInterrupt"
    /\ run_log[1].try_number = 1
    /\ pc = "done"
    /\ sleeps = 0
    /\ terminate_calls = 1

\* No command was handed to the command runner, and every call of
\* run_command returned with exit status 0.
NothingRanEverythingReturned ==
    /\ cmd_log = <<>>
    /\ terminate_calls = 0
    /\ \A j \in 1..Len(run_log) :
           /\ run_log[j].result = "return"
           /\ run_log[j].raised = "none"
           /\ run_log[j].exitcode = 0

\* run() went as a run whose commands all succeed: each setup and teardown
\* command was called for every volume, the main action was called, every
\* flag is cleared again and run() returned True.
WentAsASuccessfulRun ==
    /\ \A cmd \in SetupCommands \cup TeardownCommands :
           VolumesOf(cmd) = 1..Len(logical_volumes)
    /\ Calls("backup") # <<>>
    /\ AllFlagsCleared
    /\ returned = "True"

\* C39 as stated: with dry_run set, no command reaches the command runner,
\* every run_command call returns as a success, and run() ends as a run
\* whose commands all succeed, returning True.
C39_DryRunAlwaysReturnsTrue ==
    dry_run =>
        /\ NothingRanEverythingReturned
        /\ Done => WentAsASuccessfulRun

\* C39, amended: with dry_run set, no command reaches the command runner
\* and every run_command call returns as a success; run() ends as a run
\* whose commands all succeed, returning True, unless os.path.ismount,
\* which _mount_snapshots evaluates in a dry run too, finds a mount path to
\* be a mount point of the local machine: then _mount_snapshots raises,
\* the teardown hooks clear the flags and run() returns False.
C39_DryRunReturnsTrueUnlessAMountPointIsFound ==
    dry_run =>
        /\ NothingRanEverythingReturned
        /\ Done =>
               IF \E v \in 1..NumVolumes : CheckFailedFor(v)
               THEN /\ \A v \in 1..NumVolumes :
                           CheckFailedFor(v) => v \in env.local_mount_points
                    /\ Calls("backup") = <<>>
                    /\ AllFlagsCleared
                    /\ returned = "False"
               ELSE WentAsASuccessfulRun

\* C39's case: a dry run over two volumes has ended: seven kinds of command
\* were called for them, none reached the runner, and run() returned True.
C39_Witness ==
    /\ dry_run
    /\ Done
    /\ Len(logical_volumes) = 2
    /\ Len(run_log) = 13
    /\ cmd_log = <<>>
    /\ returned = "True"

====
